---- MODULE Spec2Model ----
(***************************************************************************)
(* envfill: template parser, writer, merger, resolver, semantic validator  *)
(* and the CLI pipeline, modelled from the TypeScript sources.             *)
(*                                                                         *)
(* A JavaScript string is a sequence of one-character strings, so that     *)
(* trim, split, the regular expressions and String.replace are computed    *)
(* character by character as the code computes them.                       *)
(***************************************************************************)
EXTENDS Integers, Sequences, FiniteSets, TLC

VARIABLES
    \* parse / generate
    text, template, values, output, rtpc,
    \* mergeTemplates
    inputs, nodes, varIndex, t, mpc,
    \* interpolate
    ivalue, resolvedMap, iresult, imatches, ipc,
    \* validate
    vvars, vidx, errors, definedVariables,
    \* run (cli) and promptForVariables (prompter)
    options, world, pc, merged, cliErrors, variables, existingValues, idx, results,
    resolvedValues, stats, trace, written,
    \* a call of one function: its arguments, its intermediate and its final result
    fin, fmid, fout, fpc

rtVars  == <<text, template, values, output, rtpc>>
mVars   == <<inputs, nodes, varIndex, t, mpc>>
iVars   == <<ivalue, resolvedMap, iresult, imatches, ipc>>
vVars   == <<vvars, vidx, errors, definedVariables>>
runVars == <<options, world, pc, merged, cliErrors, variables, existingValues, idx, results,
             resolvedValues, stats, trace, written>>
fVars   == <<fin, fmid, fout, fpc>>
vars    == <<rtVars, mVars, iVars, vVars, runVars, fVars>>

(***************************************************************************)
(* Bounds of the model.                                                    *)
(***************************************************************************)
MaxLines == 3

\* The value of a variable group that a specification does not use.
Idle == "idle"


(***************************************************************************)
(* Strings.                                                                *)
(***************************************************************************)
UpperChars == {"A","B","C","D","E","F","G","H","I","J","K","L","M",
               "N","O","P","Q","R","S","T","U","V","W","X","Y","Z"}
DigitChars == {"0","1","2","3","4","5","6","7","8","9"}
SpaceChars == {" ", "\t", "\r"}

Range(s) == {s[i] : i \in DOMAIN s}

RECURSIVE TrimStart(_)
TrimStart(s) ==
    IF s # <<>> /\ Head(s) \in SpaceChars THEN TrimStart(Tail(s)) ELSE s

RECURSIVE TrimEnd(_)
TrimEnd(s) ==
    IF s # <<>> /\ s[Len(s)] \in SpaceChars
    THEN TrimEnd(SubSeq(s, 1, Len(s) - 1)) ELSE s

\* String.prototype.trim
Trim(s) == TrimEnd(TrimStart(s))

\* s.slice(from) with a 0-based index, from <= s.length
Slice(s, from) == SubSeq(s, from + 1, Len(s))

\* s.startsWith(p)
StartsWith(s, p) == Len(s) >= Len(p) /\ SubSeq(s, 1, Len(p)) = p

\* s.endsWith(p)
EndsWith(s, p) == Len(s) >= Len(p) /\ SubSeq(s, Len(s) - Len(p) + 1, Len(s)) = p

\* s.indexOf(c, from) for a one-character c: 0-based, -1 when absent
\* the least element of a set of integers, or -1 when it is empty
MinOrMinusOne(hits) ==
    IF hits = {} THEN -1 ELSE CHOOSE i \in hits : \A j \in hits : i <= j

IndexOfFrom(s, c, from) ==
    MinOrMinusOne({i \in from .. (Len(s) - 1) : s[i + 1] = c})

\* content.split('\n')
RECURSIVE Split(_, _)
SplitAt(s, c, i) ==
    IF i = -1 THEN <<s>> ELSE <<SubSeq(s, 1, i)>> \o Split(Slice(s, i + 1), c)

Split(s, c) == SplitAt(s, c, IndexOfFrom(s, c, 0))

\* lines.join('\n')
RECURSIVE Join(_, _)
Join(ls, c) ==
    IF ls = <<>> THEN <<>>
    ELSE IF Len(ls) = 1 THEN ls[1]
    ELSE ls[1] \o <<c>> \o Join(Tail(ls), c)

RECURSIVE Flatten(_)
Flatten(ss) == IF ss = <<>> THEN <<>> ELSE Head(ss) \o Flatten(Tail(ss))

(***************************************************************************)
(* parser.ts: the patterns.  A match is None or Some(capture).             *)
(***************************************************************************)
None == <<>>
Some(v) == <<v>>
IsSome(o) == Len(o) = 1

\* the dot of a JavaScript pattern matches no line terminator
LineTerminators == {"\n", "\r"}
NoTerminator(s) == Range(s) \cap LineTerminators = {}

LowerChars == {"a","b","c","d","e","f","g","h","i","j","k","l","m",
               "n","o","p","q","r","s","t","u","v","w","x","y","z"}
NameStartChars == UpperChars \cup {"_"}
NameChars == NameStartChars \cup DigitChars

\* [A-Z_][A-Z0-9_]*
IsName(s) ==
    /\ s # <<>>
    /\ s[1] \in NameStartChars
    /\ \A i \in 2 .. Len(s) : s[i] \in NameChars

Dashes == <<"-", "-", "-">>

\* \s*---\s*$
SectionTail(rest) ==
    /\ StartsWith(TrimStart(rest), Dashes)
    /\ Trim(Slice(TrimStart(rest), 3)) = <<>>

\* \s*(.+?)\s*---\s*$ on r: the pairs <<spaces skipped, capture length>> that match
SectionCands(r, lead) ==
    {c \in (0 .. lead) \X (1 .. Len(r)) :
        /\ c[1] + c[2] <= Len(r)
        /\ NoTerminator(SubSeq(r, c[1] + 1, c[1] + c[2]))
        /\ SectionTail(Slice(r, c[1] + c[2]))}

\* the match a backtracking engine finds first: \s* greedy, then (.+?) lazy
SectionBest(r, cands) ==
    IF cands = {} THEN None
    ELSE Some(SubSeq(r,
             (CHOOSE c \in cands : \A d \in cands :
                  c[1] > d[1] \/ (c[1] = d[1] /\ c[2] <= d[2]))[1] + 1,
             (CHOOSE c \in cands : \A d \in cands :
                  c[1] > d[1] \/ (c[1] = d[1] /\ c[2] <= d[2]))[1]
             + (CHOOSE c \in cands : \A d \in cands :
                  c[1] > d[1] \/ (c[1] = d[1] /\ c[2] <= d[2]))[2]))

SectionAfterHash(a) ==
    IF ~StartsWith(a, Dashes) THEN None
    ELSE SectionBest(Slice(a, 3),
             SectionCands(Slice(a, 3), Len(Slice(a, 3)) - Len(TrimStart(Slice(a, 3)))))

\* SECTION_HEADER_REGEX = /^#\s*---\s*(.+?)\s*---\s*$/
SECTION_HEADER_REGEX(s) ==
    IF s = <<>> \/ s[1] # "#" THEN None ELSE SectionAfterHash(TrimStart(Tail(s)))

VariableAt(s, eq) ==
    IF eq >= 1 /\ IsName(SubSeq(s, 1, eq)) /\ NoTerminator(Slice(s, eq + 1))
    THEN Some([name |-> SubSeq(s, 1, eq), value |-> Slice(s, eq + 1)])
    ELSE None

\* VARIABLE_REGEX = /^([A-Z_][A-Z0-9_]*)=(.*)$/ : name and raw value
VARIABLE_REGEX(s) == VariableAt(s, IndexOfFrom(s, "=", 0))

\* The backquote character (a TLA+ string literal cannot hold one).
Backquote == "BQ"

\* SHELL_COMMAND_REGEX = /^BQ(.+)BQ$/
SHELL_COMMAND_REGEX(s) ==
    IF Len(s) >= 3 /\ s[1] = Backquote /\ s[Len(s)] = Backquote /\ NoTerminator(s)
    THEN Some(SubSeq(s, 2, Len(s) - 1)) ELSE None

DigitValue(c) ==
    CHOOSE n \in 0 .. 9 : c = <<"0","1","2","3","4","5","6","7","8","9">>[n + 1]

\* parseInt(digits, 10)
RECURSIVE ParseInt(_)
ParseInt(ds) ==
    IF ds = <<>> THEN 0
    ELSE 10 * ParseInt(SubSeq(ds, 1, Len(ds) - 1)) + DigitValue(ds[Len(ds)])

SecretPrefix == <<"<","s","e","c","r","e","t",":">>

SecretParts(digits, hasCharset, rest) ==
    IF /\ digits # <<>>
       /\ Range(digits) \subseteq DigitChars
       /\ (hasCharset => rest # <<>> /\ ">" \notin Range(rest))
    THEN Some([length |-> digits, charset |-> IF hasCharset THEN Some(rest) ELSE None])
    ELSE None

SecretBody(body, colon) ==
    IF colon = -1 THEN SecretParts(body, FALSE, <<>>)
    ELSE SecretParts(SubSeq(body, 1, colon), TRUE, Slice(body, colon + 1))

\* SECRET_DIRECTIVE_REGEX = /^<secret:(\d+)(?::([^>]+))?>$/
SECRET_DIRECTIVE_REGEX(s) ==
    IF ~(StartsWith(s, SecretPrefix) /\ s[Len(s)] = ">") THEN None
    ELSE SecretBody(SubSeq(s, Len(SecretPrefix) + 1, Len(s) - 1),
                    IndexOfFrom(SubSeq(s, Len(SecretPrefix) + 1, Len(s) - 1), ":", 0))

OptionsBody(body) ==
    IF /\ Range(body) \cap {"<", ">"} = {}
       /\ \E i \in 2 .. (Len(body) - 1) : body[i] = "|"
    THEN Some(body) ELSE None

\* OPTIONS_DIRECTIVE_REGEX = /^<([^<>]+\|[^<>]+)>$/
OPTIONS_DIRECTIVE_REGEX(s) ==
    IF Len(s) < 5 \/ s[1] # "<" \/ s[Len(s)] # ">" THEN None
    ELSE OptionsBody(SubSeq(s, 2, Len(s) - 1))

\* the class of DIRECTIVE_REGEX: [a-z,:A-Z0-9_/\\^$.*+?{}[\]()|' -]
DirectiveChars ==
    LowerChars \cup UpperChars \cup DigitChars \cup
    {",", ":", "_", "/", "\\", "^", "$", ".", "*", "+", "?", "{", "}", "[", "]",
     "(", ")", "|", "'", " ", "-"}

\* DIRECTIVE_REGEX = /^<([...]+)>$/
DIRECTIVE_REGEX(s) ==
    IF Len(s) < 3 \/ s[1] # "<" \/ s[Len(s)] # ">" THEN None
    ELSE IF Range(SubSeq(s, 2, Len(s) - 1)) \subseteq DirectiveChars
    THEN Some(SubSeq(s, 2, Len(s) - 1)) ELSE None

\* IF_DIRECTIVE_REGEX = /^if:([A-Z_][A-Z0-9_]*)$/
IF_DIRECTIVE_REGEX(s) ==
    IF StartsWith(s, <<"i", "f", ":">>) /\ IsName(Slice(s, 3))
    THEN Some(Slice(s, 3)) ELSE None

VALID_DIRECTIVES ==
    [required |-> <<"r","e","q","u","i","r","e","d">>,
     url      |-> <<"u","r","l">>,
     email    |-> <<"e","m","a","i","l">>,
     port     |-> <<"p","o","r","t">>,
     number   |-> <<"n","u","m","b","e","r">>,
     boolean  |-> <<"b","o","o","l","e","a","n">>]

DirectiveTypes == DOMAIN VALID_DIRECTIVES

VALID_REGEX_FLAGS == {"i", "m", "u", "s"}
VALID_REPLACE_FLAGS == {"g", "i"}

SIMPLE_TRANSFORMS ==
    [lowercase |-> <<"l","o","w","e","r","c","a","s","e">>,
     uppercase |-> <<"u","p","p","e","r","c","a","s","e">>,
     slugify   |-> <<"s","l","u","g","i","f","y">>]

\* the key of table f that spells word, if any
WordOf(f, word) ==
    IF \E k \in DOMAIN f : f[k] = word
    THEN Some(CHOOSE k \in DOMAIN f : f[k] = word) ELSE None

(***************************************************************************)
(* parser.ts: the directive sub-grammar.  A result is [ok |-> TRUE, ...] or *)
(* [ok |-> FALSE, error |-> ...] when the code throws.                      *)
(***************************************************************************)
Fail(kind, token) == [ok |-> FALSE, error |-> [kind |-> kind, token |-> token]]

\* findClosingSlash: 0-based index of the first unescaped '/', or -1
findClosingSlash(str) ==
    MinOrMinusOne({i \in 0 .. (Len(str) - 1) :
                      str[i + 1] = "/" /\ (i = 0 \/ str[i] # "\\")})

\* s.replace(/\\\//g, '/')
RECURSIVE UnescapeSlash(_)
UnescapeSlash(s) ==
    IF s = <<>> THEN <<>>
    ELSE IF Len(s) >= 2 /\ s[1] = "\\" /\ s[2] = "/"
         THEN <<"/">> \o UnescapeSlash(Slice(s, 2))
         ELSE <<s[1]>> \o UnescapeSlash(Tail(s))

\* new RegExp(pattern, flags) does not throw.  The pattern grammar is covered for
\* groups, classes, escapes, alternation and quantifiers; last is what precedes
\* position i: "none", "atom", "quant" (a quantifier) or "lazy" (a quantifier and ?).
RECURSIVE RegExpScan(_, _, _, _, _)
RegExpScan(p, i, depth, inClass, last) ==
    IF i > Len(p) THEN depth = 0 /\ ~inClass
    ELSE IF p[i] = "\\" THEN i < Len(p) /\ RegExpScan(p, i + 2, depth, inClass, "atom")
    ELSE IF inClass THEN RegExpScan(p, i + 1, depth, p[i] # "]", "atom")
    ELSE IF p[i] = "[" THEN RegExpScan(p, i + 1, depth, TRUE, "atom")
    ELSE IF p[i] = "(" THEN RegExpScan(p, i + 1, depth + 1, FALSE, "none")
    ELSE IF p[i] = ")" THEN depth > 0 /\ RegExpScan(p, i + 1, depth - 1, FALSE, "atom")
    ELSE IF p[i] = "|" THEN RegExpScan(p, i + 1, depth, FALSE, "none")
    ELSE IF p[i] \in {"*", "+"}
         THEN last = "atom" /\ RegExpScan(p, i + 1, depth, FALSE, "quant")
    ELSE IF p[i] = "?"
         THEN /\ last \in {"atom", "quant"}
              /\ RegExpScan(p, i + 1, depth, FALSE,
                            IF last = "atom" THEN "quant" ELSE "lazy")
    ELSE RegExpScan(p, i + 1, depth, FALSE, "atom")

RegExpCompiles(pattern, flags) ==
    /\ RegExpScan(pattern, 1, 0, FALSE, "none")
    /\ \A i, j \in DOMAIN flags : flags[i] = flags[j] => i = j

\* for (const flag of flags): the first flag outside valid, if any
BadFlag(flags, valid) ==
    IF \A i \in DOMAIN flags : flags[i] \in valid THEN None
    ELSE Some(flags[CHOOSE i \in DOMAIN flags :
                        /\ flags[i] \notin valid
                        /\ \A j \in 1 .. (i - 1) : flags[j] \in valid])

RegexPrefix == <<"r","e","g","e","x",":","/">>
ReplacePrefix == <<"r","e","p","l","a","c","e",":","/">>
TrimPrefix == <<"t","r","i","m",":">>

RegexChecked(pattern, flags, errorMessage) ==
    IF IsSome(BadFlag(flags, VALID_REGEX_FLAGS))
    THEN Fail("Invalid regex flag", BadFlag(flags, VALID_REGEX_FLAGS))
    ELSE IF ~RegExpCompiles(pattern, flags) THEN Fail("Invalid regex pattern", pattern)
    ELSE [ok |-> TRUE,
          regex |-> [pattern |-> pattern, flags |-> flags, errorMessage |-> errorMessage]]

RegexRemainder(pattern, remainder, colonIndex) ==
    IF colonIndex = -1 THEN RegexChecked(pattern, remainder, None)
    ELSE RegexChecked(pattern, SubSeq(remainder, 1, colonIndex),
                      Some(Slice(remainder, colonIndex + 1)))

RegexAfterPrefix(afterPrefix, patternEnd) ==
    IF patternEnd = -1
    THEN Fail("Invalid regex directive: missing closing /", afterPrefix)
    ELSE RegexRemainder(UnescapeSlash(SubSeq(afterPrefix, 1, patternEnd)),
                        Slice(afterPrefix, patternEnd + 1),
                        IndexOfFrom(Slice(afterPrefix, patternEnd + 1), ":", 0))

parseRegexDirective(regexStr) ==
    IF ~StartsWith(regexStr, RegexPrefix)
    THEN Fail("Invalid regex directive format", regexStr)
    ELSE RegexAfterPrefix(Slice(regexStr, 7), findClosingSlash(Slice(regexStr, 7)))

ReplaceChecked(pattern, replacement, flags) ==
    IF IsSome(BadFlag(flags, VALID_REPLACE_FLAGS))
    THEN Fail("Invalid replace flag", BadFlag(flags, VALID_REPLACE_FLAGS))
    ELSE IF ~RegExpCompiles(pattern, flags) THEN Fail("Invalid replace pattern", pattern)
    ELSE [ok |-> TRUE,
          transform |-> [type |-> "replace", pattern |-> pattern,
                         replacement |-> replacement, flags |-> flags]]

ReplaceAfterPattern(pattern, afterPattern, replacementEnd) ==
    IF replacementEnd = -1
    THEN Fail("Invalid replace directive: missing closing / after replacement",
              afterPattern)
    ELSE ReplaceChecked(pattern, UnescapeSlash(SubSeq(afterPattern, 1, replacementEnd)),
                        Slice(afterPattern, replacementEnd + 1))

ReplaceAfterPrefix(afterPrefix, patternEnd) ==
    IF patternEnd = -1
    THEN Fail("Invalid replace directive: missing closing / after pattern", afterPrefix)
    ELSE ReplaceAfterPattern(UnescapeSlash(SubSeq(afterPrefix, 1, patternEnd)),
                             Slice(afterPrefix, patternEnd + 1),
                             findClosingSlash(Slice(afterPrefix, patternEnd + 1)))

parseReplaceTransform(replaceStr) ==
    IF ~StartsWith(replaceStr, ReplacePrefix)
    THEN Fail("Invalid replace directive format", replaceStr)
    ELSE ReplaceAfterPrefix(Slice(replaceStr, 9), findClosingSlash(Slice(replaceStr, 9)))

parseTrimTransform(trimStr) ==
    IF ~StartsWith(trimStr, TrimPrefix) THEN Fail("Invalid trim directive format", trimStr)
    ELSE IF Slice(trimStr, 5) = <<>>
    THEN Fail("Trim directive requires characters to trim", trimStr)
    ELSE [ok |-> TRUE, transform |-> [type |-> "trim", chars |-> Slice(trimStr, 5)]]

\* while (i < length && (str[i] === ',' || str[i] === ' ')) i++
RECURSIVE SkipSeparators(_, _)
SkipSeparators(str, i) ==
    IF i < Len(str) /\ str[i + 1] \in {",", " "} THEN SkipSeparators(str, i + 1) ELSE i

\* indexOf(',', i), or the length when there is none
NextComma(str, i) ==
    IF IndexOfFrom(str, ",", i) # -1 THEN IndexOfFrom(str, ",", i) ELSE Len(str)

NoDirectives ==
    [directives |-> <<>>, condition |-> None, regex |-> None, transforms |-> <<>>]

\* parseDirectiveString: the while loop, from position i0 with the terms so far in acc
RECURSIVE DirectiveLoop(_, _, _)

\* a replace term that starts at i and ends at i3
ReplaceTerm(str, acc, i3, tr) ==
    IF ~tr.ok THEN tr
    ELSE DirectiveLoop(str, i3, [acc EXCEPT !.transforms = Append(@, tr.transform)])

ReplaceFlags(str, i, acc, i3) ==
    ReplaceTerm(str, acc, i3, parseReplaceTransform(SubSeq(str, i + 1, i3)))

ReplaceReplacement(str, i, acc, i2, replacementEnd) ==
    IF replacementEnd = -1
    THEN Fail("Invalid replace directive: missing closing / after replacement",
              Slice(str, i))
    ELSE ReplaceFlags(str, i, acc, NextComma(str, i2 + replacementEnd + 1))

ReplacePattern(str, i, acc, i1, patternEnd) ==
    IF patternEnd = -1
    THEN Fail("Invalid replace directive: missing closing / after pattern", Slice(str, i))
    ELSE ReplaceReplacement(str, i, acc, i1 + patternEnd + 1,
                            findClosingSlash(Slice(str, i1 + patternEnd + 1)))

\* a regex term that starts at i and ends at i3
RegexTerm(str, acc, i3, rx) ==
    IF ~rx.ok THEN rx
    ELSE DirectiveLoop(str, i3, [acc EXCEPT !.regex = Some(rx.regex)])

RegexFlags(str, i, acc, i3) ==
    RegexTerm(str, acc, i3, parseRegexDirective(SubSeq(str, i + 1, i3)))

RegexMessage(str, i, acc, i2, colonIdx, commaIdx) ==
    IF colonIdx # -1 /\ (commaIdx = -1 \/ colonIdx < commaIdx)
    THEN RegexFlags(str, i, acc, NextComma(str, colonIdx + 1))
    ELSE RegexFlags(str, i, acc, IF commaIdx # -1 THEN commaIdx ELSE Len(str))

RegexPattern(str, i, acc, i1, patternEnd) ==
    IF patternEnd = -1
    THEN Fail("Invalid regex directive: missing closing /", Slice(str, i))
    ELSE RegexMessage(str, i, acc, i1 + patternEnd + 1,
                      IndexOfFrom(str, ":", i1 + patternEnd + 1),
                      IndexOfFrom(str, ",", i1 + patternEnd + 1))

\* a comma-separated part: if:VAR, a directive type, a simple transform or trim:chars
BareTerm(str, acc, partEnd, part) ==
    IF part = <<>> THEN DirectiveLoop(str, partEnd, acc)
    ELSE IF IsSome(IF_DIRECTIVE_REGEX(part))
    THEN IF IsSome(acc.condition) THEN Fail("Multiple if conditions not allowed", part)
         ELSE DirectiveLoop(str, partEnd,
                  [acc EXCEPT !.condition = Some([variable |-> IF_DIRECTIVE_REGEX(part)[1]])])
    ELSE IF IsSome(WordOf(VALID_DIRECTIVES, part))
    THEN DirectiveLoop(str, partEnd,
             [acc EXCEPT !.directives = Append(@, WordOf(VALID_DIRECTIVES, part)[1])])
    ELSE IF IsSome(WordOf(SIMPLE_TRANSFORMS, part))
    THEN DirectiveLoop(str, partEnd,
             [acc EXCEPT !.transforms =
                 Append(@, [type |-> WordOf(SIMPLE_TRANSFORMS, part)[1]])])
    ELSE IF StartsWith(part, TrimPrefix)
    THEN IF ~parseTrimTransform(part).ok THEN parseTrimTransform(part)
         ELSE DirectiveLoop(str, partEnd,
                  [acc EXCEPT !.transforms = Append(@, parseTrimTransform(part).transform)])
    ELSE Fail("Unknown directive", part)

DirectiveAt(str, i, acc) ==
    IF i >= Len(str) THEN [ok |-> TRUE] @@ acc
    ELSE IF StartsWith(Slice(str, i), ReplacePrefix)
    THEN ReplacePattern(str, i, acc, i + 9, findClosingSlash(Slice(str, i + 9)))
    ELSE IF StartsWith(Slice(str, i), RegexPrefix)
    THEN RegexPattern(str, i, acc, i + 7, findClosingSlash(Slice(str, i + 7)))
    ELSE BareTerm(str, acc, NextComma(str, i), Trim(SubSeq(str, i + 1, NextComma(str, i))))

DirectiveLoop(directiveStr, i0, acc) ==
    DirectiveAt(directiveStr, SkipSeparators(directiveStr, i0), acc)

parseDirectiveString(directiveStr) == DirectiveLoop(directiveStr, 0, NoDirectives)

\* part.startsWith('*') ? part.slice(1) : part
Choice(part) == IF StartsWith(part, <<"*">>) THEN Tail(part) ELSE part

\* the loop over the trimmed parts: every choice, and the last starred one
OptionsOf(parts) ==
    [choices |-> [i \in DOMAIN parts |-> Choice(Trim(parts[i]))],
     defaultChoice |->
         IF \A i \in DOMAIN parts : ~StartsWith(Trim(parts[i]), <<"*">>) THEN None
         ELSE Some(Tail(Trim(parts[
                  CHOOSE i \in DOMAIN parts :
                      /\ StartsWith(Trim(parts[i]), <<"*">>)
                      /\ \A j \in (i + 1) .. Len(parts) :
                             ~StartsWith(Trim(parts[j]), <<"*">>)])))]

parseOptions(optionsStr) == OptionsOf(Split(optionsStr, "|"))

NoDefault == [type |-> "none"]

Plain(default) == [ok |-> TRUE, default |-> default] @@ NoDirectives

WithNoDefault(parsed) == IF parsed.ok THEN [default |-> NoDefault] @@ parsed ELSE parsed

SecretDefault(m) ==
    [type |-> "secret", length |-> ParseInt(m.length), charset |-> m.charset]

parseTrimmed(trimmedValue) ==
    IF trimmedValue = <<>> THEN Plain(NoDefault)
    ELSE IF IsSome(SHELL_COMMAND_REGEX(trimmedValue))
    THEN Plain([type |-> "shell", command |-> SHELL_COMMAND_REGEX(trimmedValue)[1]])
    ELSE IF IsSome(SECRET_DIRECTIVE_REGEX(trimmedValue))
    THEN Plain(SecretDefault(SECRET_DIRECTIVE_REGEX(trimmedValue)[1]))
    ELSE IF IsSome(OPTIONS_DIRECTIVE_REGEX(trimmedValue))
    THEN Plain([type |-> "options"] @@ parseOptions(OPTIONS_DIRECTIVE_REGEX(trimmedValue)[1]))
    ELSE IF IsSome(DIRECTIVE_REGEX(trimmedValue))
    THEN WithNoDefault(parseDirectiveString(DIRECTIVE_REGEX(trimmedValue)[1]))
    ELSE Plain([type |-> "static", value |-> trimmedValue])

parseValue(value) == parseTrimmed(Trim(value))

(***************************************************************************)
(* parser.ts: parse, the block-based AST.                                  *)
(***************************************************************************)
isVariableLine(line) == IsSome(VARIABLE_REGEX(Trim(line)))

VariableOf(name, parsed, description, section, lineNumber) ==
    IF ~parsed.ok THEN parsed
    ELSE [ok |-> TRUE,
          variable |-> [name |-> name,
                        lineNumber |-> lineNumber,
                        directives |-> parsed.directives,
                        description |-> description,
                        default |-> parsed.default,
                        condition |-> parsed.condition,
                        regex |-> parsed.regex,
                        transforms |-> parsed.transforms,
                        section |-> section]]

VariableOfMatch(line, variableMatch, description, section, lineNumber) ==
    IF ~IsSome(variableMatch) THEN Fail("Invalid variable line", line)
    ELSE VariableOf(variableMatch[1].name, parseValue(variableMatch[1].value),
                    description, section, lineNumber)

parseVariableLine(line, description, section, lineNumber) ==
    VariableOfMatch(line, VARIABLE_REGEX(Trim(line)), description, section, lineNumber)

\* s.replace(/^#\s?/, '')
StripHash(s) ==
    IF s = <<>> \/ s[1] # "#" THEN s
    ELSE IF Len(s) >= 2 /\ s[2] \in SpaceChars THEN Slice(s, 2) ELSE Tail(s)

DescriptionText(joined) == IF joined = <<>> THEN None ELSE Some(joined)

\* pendingDescription.map(l => l.trim().replace(/^#\s?/, '')).join('\n'), undefined
\* when nothing is pending; an empty text is not stored on the variable
Description(pendingDescription) ==
    IF pendingDescription = <<>> THEN None
    ELSE DescriptionText(Join([i \in DOMAIN pendingDescription |->
                                  StripHash(Trim(pendingDescription[i]))], "\n"))

flushWhitespace(st) ==
    IF st.blankCount > 0
    THEN [st EXCEPT !.nodes = Append(@, [type |-> "whitespace", count |-> st.blankCount]),
                    !.blankCount = 0]
    ELSE st

\* nodes.push({ type: 'content', lines: [...pendingDescription] }) when any is pending
WithContent(ns, pendingDescription) ==
    IF pendingDescription # <<>>
    THEN Append(ns, [type |-> "content", lines |-> pendingDescription])
    ELSE ns

\* flushBlock, the loop over the lines of currentBlock from its i-th line
RECURSIVE BlockLoop(_, _, _)

BlockVariable(st, i, pendingDescription, line, parsed) ==
    IF ~parsed.ok THEN [st EXCEPT !.error = Some(parsed.error)]
    ELSE BlockLoop([st EXCEPT !.nodes =
                        Append(@, [type |-> "variable",
                                   lines |-> Append(pendingDescription, line),
                                   variable |-> parsed.variable])],
                   i + 1, <<>>)

BlockLine(st, i, pendingDescription, line, sectionMatch) ==
    IF IsSome(sectionMatch)
    THEN BlockLoop([st EXCEPT !.nodes =
                        Append(WithContent(@, pendingDescription),
                               [type |-> "section", name |-> sectionMatch[1],
                                line |-> line]),
                    !.currentSection = sectionMatch],
                   i + 1, <<>>)
    ELSE IF isVariableLine(line)
    THEN BlockVariable(st, i, pendingDescription, line,
             parseVariableLine(line, Description(pendingDescription),
                               st.currentSection, st.blockStartLine + (i - 1)))
    ELSE BlockLoop(st, i + 1, Append(pendingDescription, line))

BlockLoop(st, i, pendingDescription) ==
    IF i > Len(st.currentBlock)
    THEN [st EXCEPT !.nodes = WithContent(@, pendingDescription), !.currentBlock = <<>>]
    ELSE BlockLine(st, i, pendingDescription, st.currentBlock[i],
                   SECTION_HEADER_REGEX(Trim(st.currentBlock[i])))

FlushedBlock(st) == IF st.currentBlock = <<>> THEN st ELSE BlockLoop(st, 1, <<>>)

flushBlock(st) == FlushedBlock(flushWhitespace(st))

\* parse, the loop over the lines from the i-th (1-based)
RECURSIVE LineLoop(_, _, _)

BlankLine(lines, i, st) == LineLoop(lines, i + 1, [st EXCEPT !.blankCount = @ + 1])

ContentLine(lines, i, st) ==
    LineLoop(lines, i + 1,
        [st EXCEPT !.blockStartLine = IF st.currentBlock = <<>> THEN i ELSE @,
                   !.currentBlock = Append(@, lines[i])])

LineLoop(lines, i, st) ==
    IF IsSome(st.error) THEN st
    ELSE IF i > Len(lines) THEN flushBlock(st)
    ELSE IF Trim(lines[i]) = <<>> THEN BlankLine(lines, i, flushBlock(st))
    ELSE ContentLine(lines, i, flushWhitespace(st))

ParseResult(st) ==
    IF IsSome(st.error) THEN [ok |-> FALSE, error |-> st.error[1]]
    ELSE [ok |-> TRUE, nodes |-> st.nodes]

parse(content) ==
    ParseResult(LineLoop(Split(content, "\n"), 1,
        [nodes |-> <<>>, currentBlock |-> <<>>, blockStartLine |-> 1,
         blankCount |-> 0, currentSection |-> None, error |-> None]))

IsVariableNode(n) == n.type = "variable"

VariablesOf(vs) == [i \in DOMAIN vs |-> vs[i].variable]

\* getVariables(template): template.nodes filtered to the variable nodes
getVariables(tpl) == VariablesOf(SelectSeq(tpl, IsVariableNode))

(***************************************************************************)
(* writer.ts: escapeValue and generate.                                    *)
(***************************************************************************)
\* the backslash left as it is
RECURSIVE EscapeCharsKeepBackslash(_)
EscapeCharsKeepBackslash(s) ==
    IF s = <<>> THEN <<>>
    ELSE (IF Head(s) \in {"\"", "$"} THEN <<"\\", Head(s)>> ELSE <<Head(s)>>)
         \o EscapeCharsKeepBackslash(Tail(s))

\* .replace(/\\/g, '\\\\').replace(/"/g, '\\"').replace(/\$/g, '\\$')
RECURSIVE EscapeChars(_)
EscapeChars(s) ==
    IF s = <<>> THEN <<>>
    ELSE (IF Head(s) \in {"\\", "\"", "$"} THEN <<"\\", Head(s)>> ELSE <<Head(s)>>)
         \o EscapeChars(Tail(s))

escapeValue(value) ==
    IF value = <<>> THEN <<>>
    ELSE IF Range(value) \cap {"\n", "\"", "'", " ", "#", "$"} # {}
    THEN <<"\"">> \o EscapeChars(value) \o <<"\"">>
    ELSE value

\* values.get(name) ?? ''
ValueOf(vals, name) == IF name \in DOMAIN vals THEN vals[name] ELSE <<>>

\* the lines one node pushes to the output
NodeLines(node, vals) ==
    CASE node.type = "whitespace" -> [i \in 1 .. node.count |-> <<>>]
      [] node.type = "section" -> <<node.line>>
      [] node.type = "content" -> node.lines
      [] node.type = "variable" ->
             SubSeq(node.lines, 1, Len(node.lines) - 1)
             \o <<node.variable.name \o <<"=">>
                  \o escapeValue(ValueOf(vals, node.variable.name))>>

ExtraHeader ==
    <<"#"," ","-","-","-"," ","E","x","t","r","a"," ","(","n","o","t"," ","i","n"," ",
      "t","e","m","p","l","a","t","e",")"," ","-","-","-">>

\* the lines appended for the extra variables, a sequence of name/value records
ExtraLines(extra) ==
    IF extra = <<>> THEN <<>>
    ELSE <<<<>>, ExtraHeader>>
         \o [i \in DOMAIN extra |->
                extra[i].name \o <<"=">> \o escapeValue(extra[i].value)]

\* generate(template, values, extraVariables)
generate(tpl, vals, extra) ==
    Join(Flatten([i \in DOMAIN tpl |-> NodeLines(tpl[i], vals)]) \o ExtraLines(extra), "\n")

(***************************************************************************)
(* Variable groups a specification leaves unused.                          *)
(***************************************************************************)
IdleRt  == text = Idle /\ template = Idle /\ values = Idle /\ output = Idle /\ rtpc = Idle
IdleM   == inputs = Idle /\ nodes = Idle /\ varIndex = Idle /\ t = Idle /\ mpc = Idle
IdleI   == ivalue = Idle /\ resolvedMap = Idle /\ iresult = Idle /\ imatches = Idle
           /\ ipc = Idle
IdleV   == vvars = Idle /\ vidx = Idle /\ errors = Idle /\ definedVariables = Idle
IdleRun == options = Idle /\ world = Idle /\ pc = Idle /\ merged = Idle /\ cliErrors = Idle
           /\ variables = Idle
           /\ existingValues = Idle /\ idx = Idle /\ results = Idle
           /\ resolvedValues = Idle /\ stats = Idle /\ trace = Idle /\ written = Idle
IdleF   == fin = Idle /\ fmid = Idle /\ fout = Idle /\ fpc = Idle

(***************************************************************************)
(* SpecRoundTrip: parse a template text, then generate from the AST.       *)
(***************************************************************************)
\* the lines a template text is made of: empty, blank, comment, stray text, section
\* header, variables (plain, indented, conditional) and a variable that fails to parse
TemplateLines ==
    { <<>>,
      <<" ">>,
      <<"#", " ", "c">>,
      <<"j">>,
      <<"#", " ", "-", "-", "-", " ", "S", " ", "-", "-", "-">>,
      <<"A", "=", "1">>,
      <<" ", "B", "=", "x">>,
      <<"B", "=", "<", "i", "f", ":", "A", ">">>,
      <<"A", "=", "<", "x", ">">> }

\* all sequences over S of length 1 .. n
SeqsUpTo(S, n) == UNION {[1 .. k -> S] : k \in 1 .. n}

TemplateTexts == {Join(ls, "\n") : ls \in SeqsUpTo(TemplateLines, MaxLines)}

ValueMaps ==
    { [n \in {<<"A">>, <<"B">>} |-> <<"v">>],
      [n \in {<<"A">>} |-> <<"a", " ", "$">>],
      [n \in {<<"B">>} |-> <<"\\", "\"">>] }

InitRoundTrip ==
    /\ text \in TemplateTexts
    /\ values \in ValueMaps
    /\ template = None
    /\ output = None
    /\ rtpc = "start"
    /\ IdleM /\ IdleI /\ IdleV /\ IdleRun /\ IdleF

\* const template = parse(content); a throw ends the run
Parse ==
    /\ rtpc = "start"
    /\ template' = parse(text)
    /\ rtpc' = IF template'.ok THEN "parsed" ELSE "failed"
    /\ UNCHANGED <<text, values, output, mVars, iVars, vVars, runVars, fVars>>

\* const content = generate(template, values)
Generate ==
    /\ rtpc = "parsed"
    /\ output' = Some(generate(template.nodes, values, <<>>))
    /\ rtpc' = "done"
    /\ UNCHANGED <<text, values, template, mVars, iVars, vVars, runVars, fVars>>

NextRoundTrip == Parse \/ Generate

SpecRoundTrip == InitRoundTrip /\ [][NextRoundTrip]_vars

\* the line the round trip is to give in place of line l
ExpectedLine(l, vals) ==
    IF isVariableLine(l)
    THEN VARIABLE_REGEX(Trim(l))[1].name \o <<"=">>
         \o escapeValue(ValueOf(vals, VARIABLE_REGEX(Trim(l))[1].name))
    ELSE l

ExpectedLines(ls, vals) == [i \in DOMAIN ls |-> ExpectedLine(ls[i], vals)]

ExpectedText(txt, vals) == Join(ExpectedLines(Split(txt, "\n"), vals), "\n")

\* C1: generate(parse(text), values) is text with every variable line replaced by
\* NAME=<escaped value> and every other line, blank lines included, unchanged.
C1_RoundTrip == rtpc = "done" => output[1] = ExpectedText(text, values)

\* a line that is blank for the parser but is not the empty line
SpaceOnly(l) == l # <<>> /\ Trim(l) = <<>>

HasSpaceOnlyLine(ls) == \E i \in DOMAIN ls : SpaceOnly(ls[i])

\* the round trip of the texts whose blank lines are all empty
RoundTripEmptyBlanks ==
    (rtpc = "done" /\ ~HasSpaceOnlyLine(Split(text, "\n")))
        => output[1] = ExpectedText(text, values)

(***************************************************************************)
(* merger.ts: mergeTemplates.  A JavaScript array is a sequence; an entry   *)
(* that an assignment past the end leaves unset is a Hole.                  *)
(***************************************************************************)
Hole == [type |-> "hole"]

\* arr[index] = v with a 0-based index: past the end, the array grows and the
\* entries in between are holes
SetAt(arr, index, v) ==
    IF index < Len(arr) THEN [arr EXCEPT ![index + 1] = v]
    ELSE arr \o [i \in 1 .. (index - Len(arr)) |-> Hole] \o <<v>>

\* createFileSection
createFileSection(filename) ==
    [type |-> "section", name |-> filename,
     line |-> <<"#", " ", "-", "-", "-", " ">> \o filename \o <<" ", "-", "-", "-">>]

Whitespace1 == [type |-> "whitespace", count |-> 1]

\* varIndex.set(name, index)
MapSet(m, key, v) == [k \in DOMAIN m \cup {key} |-> IF k = key THEN v ELSE m[k]]

\* Phase 1, the index of the variable nodes of ns: the last position of each name
IndexOfNodes(ns) ==
    [name \in {ns[i].variable.name : i \in {j \in DOMAIN ns : ns[j].type = "variable"}} |->
        (CHOOSE i \in DOMAIN ns :
            /\ ns[i].type = "variable" /\ ns[i].variable.name = name
            /\ \A j \in (i + 1) .. Len(ns) :
                   ~(ns[j].type = "variable" /\ ns[j].variable.name = name)) - 1]

\* a merge in which the node of an existing name is left as the earlier file has it
OverrideNodeKeepsEarlier(m, node) ==
    IF node.type # "variable" THEN m
    ELSE IF node.variable.name \in DOMAIN m.varIndex THEN m
    ELSE [m EXCEPT !.pendingNodes = Append(@, node),
                   !.varIndex = MapSet(@, node.variable.name,
                                       Len(m.nodes) + 3 + Len(m.pendingNodes))]

\* a merge that counts two nodes, not three, before the pending ones
OverrideNodeTwoAhead(m, node) ==
    IF node.type # "variable" THEN m
    ELSE IF node.variable.name \in DOMAIN m.varIndex
    THEN [m EXCEPT !.nodes = SetAt(@, m.varIndex[node.variable.name], node)]
    ELSE [m EXCEPT !.pendingNodes = Append(@, node),
                   !.varIndex = MapSet(@, node.variable.name,
                                       Len(m.nodes) + 2 + Len(m.pendingNodes))]

\* Phase 2, one node of an override; m holds nodes, varIndex and pendingNodes
OverrideNode(m, node) ==
    IF node.type # "variable" THEN m
    ELSE IF node.variable.name \in DOMAIN m.varIndex
    THEN [m EXCEPT !.nodes = SetAt(@, m.varIndex[node.variable.name], node)]
    ELSE [m EXCEPT !.pendingNodes = Append(@, node),
                   !.varIndex = MapSet(@, node.variable.name,
                                       Len(m.nodes) + 3 + Len(m.pendingNodes))]

\* for (const node of template.nodes)
RECURSIVE OverrideLoop(_, _)
OverrideLoop(m, tplNodes) ==
    IF tplNodes = <<>> THEN m
    ELSE OverrideLoop(OverrideNode(m, Head(tplNodes)), Tail(tplNodes))

\* nodes.push(whitespace, file section, whitespace, ...pendingNodes) when any is pending
AppendPending(m, filename) ==
    IF m.pendingNodes # <<>>
    THEN [m EXCEPT !.nodes = @ \o <<Whitespace1, createFileSection(filename), Whitespace1>>
                                 \o m.pendingNodes]
    ELSE m

\* one iteration of the loop over the overrides
ApplyOne(ns, index, input) ==
    AppendPending(OverrideLoop([nodes |-> ns, varIndex |-> index, pendingNodes |-> <<>>],
                               input.template.nodes),
                  input.filename)

\* Phase 1: the file section of the first input, a blank line, the first input's nodes
BaseNodes(first) == <<createFileSection(first.filename), Whitespace1>> \o first.template.nodes

\* for (let t = 1; t < inputs.length; t++), t counted from 1 as TLA+ sequences are
RECURSIVE OverridesFrom(_, _, _, _)
OverridesFrom(ins, i, ns, index) ==
    IF i > Len(ins) THEN ns
    ELSE OverridesFrom(ins, i + 1, ApplyOne(ns, index, ins[i]).nodes,
                       ApplyOne(ns, index, ins[i]).varIndex)

\* every merge under a file section, a single template too
mergeTemplatesUnderSection(ins) ==
    IF Len(ins) = 0 THEN [nodes |-> <<>>]
    ELSE [nodes |-> OverridesFrom(ins, 2, BaseNodes(ins[1]), IndexOfNodes(BaseNodes(ins[1])))]

mergeTemplates(ins) ==
    IF Len(ins) = 0 THEN [nodes |-> <<>>]
    ELSE IF Len(ins) = 1 THEN ins[1].template
    ELSE [nodes |-> OverridesFrom(ins, 2, BaseNodes(ins[1]), IndexOfNodes(BaseNodes(ins[1])))]

(***************************************************************************)
(* Merging: a base template and up to MaxOverrides overrides, every one the *)
(* parse of a small file; the loop over the overrides runs one override a   *)
(* step.                                                                    *)
(***************************************************************************)
MaxOverrides == 2
MaxBaseLines == 2
MaxOverrideVars == 3

Filename(i) == <<"f", CHOOSE d \in DigitChars : DigitValue(d) = i>>

\* the line NAME=<digit of the file>, so that a node tells the file it is from
VarLine(name, i) == <<name, "=", CHOOSE d \in DigitChars : DigitValue(d) = i>>

BaseLinePool ==
    { <<"A", "=", "1">>, <<"B", "=", "1">>, <<"#", " ", "c">>, <<>>,
      <<"#", " ", "-", "-", "-", " ", "S", " ", "-", "-", "-">> }

OverrideNames == {"A", "C", "D"}

\* the names of the override files: a sequence of names cut into files at cuts
CutPoints(cuts, n) == <<0>> \o [i \in 1 .. Cardinality(cuts) |->
    CHOOSE c \in cuts : Cardinality({d \in cuts : d < c}) = i - 1] \o <<n>>

CutInto(flat, cuts) ==
    [i \in 1 .. Cardinality(cuts) + 1 |->
        SubSeq(flat, CutPoints(cuts, Len(flat))[i] + 1, CutPoints(cuts, Len(flat))[i + 1])]

OverrideNameLists ==
    {<<>>} \cup UNION {{CutInto(flat, cuts) :
                           cuts \in {c \in SUBSET (1 .. Len(flat) - 1) :
                                         Cardinality(c) < MaxOverrides}} :
                       flat \in SeqsUpTo(OverrideNames, MaxOverrideVars)}

InputOf(lines, i) == [template |-> parse(Join(lines, "\n")), filename |-> Filename(i)]

InputsOf(baseLines, overrideNames) ==
    <<InputOf(baseLines, 1)>> \o
    [i \in DOMAIN overrideNames |->
        InputOf([j \in DOMAIN overrideNames[i] |-> VarLine(overrideNames[i][j], i + 1)], i + 1)]

InitMerge ==
    /\ inputs \in {InputsOf(b, o) : b \in SeqsUpTo(BaseLinePool, MaxBaseLines),
                                    o \in OverrideNameLists}
    /\ nodes = <<>>
    /\ varIndex = <<>>
    /\ t = 0
    /\ mpc = "start"
    /\ IdleRt /\ IdleI /\ IdleV /\ IdleRun /\ IdleF

\* lines 23-29: a single input is returned as it is
MergeSingle ==
    /\ mpc = "start"
    /\ Len(inputs) = 1
    /\ nodes' = mergeTemplates(inputs).nodes
    /\ mpc' = "done"
    /\ UNCHANGED <<inputs, varIndex, t>>
    /\ UNCHANGED <<rtVars, iVars, vVars, runVars, fVars>>

\* lines 31-44: Phase 1
MergeBase ==
    /\ mpc = "start"
    /\ Len(inputs) > 1
    /\ nodes' = BaseNodes(inputs[1])
    /\ varIndex' = IndexOfNodes(nodes')
    /\ t' = 1
    /\ mpc' = "overrides"
    /\ UNCHANGED inputs
    /\ UNCHANGED <<rtVars, iVars, vVars, runVars, fVars>>

\* lines 47-78: one iteration of Phase 2, inputs[t] of the code being inputs[t + 1]
MergeOverride ==
    /\ mpc = "overrides"
    /\ t < Len(inputs)
    /\ nodes' = ApplyOne(nodes, varIndex, inputs[t + 1]).nodes
    /\ varIndex' = ApplyOne(nodes, varIndex, inputs[t + 1]).varIndex
    /\ t' = t + 1
    /\ mpc' = IF t' < Len(inputs) THEN "overrides" ELSE "done"
    /\ UNCHANGED inputs
    /\ UNCHANGED <<rtVars, iVars, vVars, runVars, fVars>>

NextMerge == MergeSingle \/ MergeBase \/ MergeOverride

SpecMerge == InitMerge /\ [][NextMerge]_vars

\* what the merge of inputs with pairwise distinct names is to be
VarNodes(input) == SelectSeq(input.template.nodes, IsVariableNode)

NamesIn(input) == {VarNodes(input)[i].variable.name : i \in DOMAIN VarNodes(input)}

DistinctNames(input) ==
    \A i, j \in DOMAIN VarNodes(input) :
        VarNodes(input)[i].variable.name = VarNodes(input)[j].variable.name => i = j

NamesBefore(ins, i) == UNION {NamesIn(ins[j]) : j \in 1 .. i - 1}

\* the node of the last input that defines name
LastDefinition(ins, name) ==
    LET last == CHOOSE i \in DOMAIN ins :
                    /\ name \in NamesIn(ins[i])
                    /\ \A j \in (i + 1) .. Len(ins) : name \notin NamesIn(ins[j])
    IN  VarNodes(ins[last])[CHOOSE k \in DOMAIN VarNodes(ins[last]) :
                                VarNodes(ins[last])[k].variable.name = name]

Overridden(ins, ns) ==
    [k \in DOMAIN ns |-> IF ns[k].type = "variable"
                         THEN LastDefinition(ins, ns[k].variable.name) ELSE ns[k]]

NewNodes(ins, i) ==
    LET IsNew(n) == n.variable.name \notin NamesBefore(ins, i)
    IN  SelectSeq(VarNodes(ins[i]), IsNew)

AppendedBy(ins, i) ==
    IF NewNodes(ins, i) = <<>> THEN <<>>
    ELSE <<Whitespace1, createFileSection(ins[i].filename), Whitespace1>>
         \o Overridden(ins, NewNodes(ins, i))

ExpectedMerge(ins) ==
    <<createFileSection(ins[1].filename), Whitespace1>>
    \o Overridden(ins, ins[1].template.nodes)
    \o Flatten([i \in 1 .. Len(ins) - 1 |-> AppendedBy(ins, i + 1)])

AllDistinctNames == \A i \in DOMAIN inputs : DistinctNames(inputs[i])

\* C2: merging a base and overrides that each have pairwise distinct names leaves
\* every node of the base at its position (two nodes further, after the base's file
\* section), a variable node being the node of the last file that defines its
\* name; each override with new names appends Whitespace(1), Section(filename),
\* Whitespace(1) and its new variables in their order; an override without a new
\* name appends nothing.
C2_Merge ==
    (mpc = "done" /\ Len(inputs) >= 2 /\ AllDistinctNames) => nodes = ExpectedMerge(inputs)

\* a merge of three files: the second redefines a name of the base and adds a new
\* one, the third adds nothing and redefines the name the second added
C2_Witness ==
    /\ mpc = "done" /\ Len(inputs) = 3 /\ AllDistinctNames
    /\ NewNodes(inputs, 2) # <<>>
    /\ NamesIn(inputs[2]) \cap NamesIn(inputs[1]) # {}
    /\ NewNodes(inputs, 3) = <<>>
    /\ NamesIn(inputs[3]) \cap (NamesIn(inputs[2]) \ NamesIn(inputs[1])) # {}
    /\ Len(nodes) = Len(inputs[1].template.nodes) + 6
    /\ nodes = ExpectedMerge(inputs)

(***************************************************************************)
(* resolver.ts: INTERPOLATION_PATTERN and interpolate.                      *)
(***************************************************************************)
\* the longest run of [A-Z0-9_] of s from index i (1-based), as a length
RECURSIVE NameRun(_, _)
NameRun(s, i) == IF i <= Len(s) /\ s[i] \in NameChars THEN 1 + NameRun(s, i + 1) ELSE 0

\* /\$\{([A-Z_][A-Z0-9_]*)\}/ tried at index i of s: None, or the name matched
INTERPOLATION_PATTERN(s, i) ==
    IF /\ i + 3 <= Len(s)
       /\ s[i] = "$" /\ s[i + 1] = "{"
       /\ s[i + 2] \in NameStartChars
       /\ i + 2 + NameRun(s, i + 2) <= Len(s)
       /\ s[i + 2 + NameRun(s, i + 2)] = "}"
    THEN Some(SubSeq(s, i + 2, i + 1 + NameRun(s, i + 2)))
    ELSE None

\* match[0] of a match of name
RefText(name) == <<"$", "{">> \o name \o <<"}">>

\* the names of the successive pattern.exec(value) matches, from index i on
RECURSIVE ExecAll(_, _)
ExecAll(s, i) ==
    IF i > Len(s) THEN <<>>
    ELSE IF IsSome(INTERPOLATION_PATTERN(s, i))
    THEN <<INTERPOLATION_PATTERN(s, i)[1]>>
         \o ExecAll(s, i + Len(RefText(INTERPOLATION_PATTERN(s, i)[1])))
    ELSE ExecAll(s, i + 1)

\* str.indexOf(pat), 0-based, -1 when absent
IndexOf(str, pat) ==
    MinOrMinusOne({i \in 0 .. Len(str) - Len(pat) : SubSeq(str, i + 1, i + Len(pat)) = pat})

\* GetSubstitution of String.prototype.replace for a string pattern (no captures):
\* $$ is $, $& the match, $BQ the text before it, $' the text after it
RECURSIVE GetSubstitution(_, _, _, _, _)
GetSubstitution(repl, i, matched, before, after) ==
    IF i > Len(repl) THEN <<>>
    ELSE IF repl[i] = "$" /\ i < Len(repl) /\ repl[i + 1] = "$"
    THEN <<"$">> \o GetSubstitution(repl, i + 2, matched, before, after)
    ELSE IF repl[i] = "$" /\ i < Len(repl) /\ repl[i + 1] = "&"
    THEN matched \o GetSubstitution(repl, i + 2, matched, before, after)
    ELSE IF repl[i] = "$" /\ i < Len(repl) /\ repl[i + 1] = Backquote
    THEN before \o GetSubstitution(repl, i + 2, matched, before, after)
    ELSE IF repl[i] = "$" /\ i < Len(repl) /\ repl[i + 1] = "'"
    THEN after \o GetSubstitution(repl, i + 2, matched, before, after)
    ELSE <<repl[i]>> \o GetSubstitution(repl, i + 1, matched, before, after)

ReplaceAt(str, pat, repl, pos) ==
    IF pos = -1 THEN str
    ELSE SubSeq(str, 1, pos)
         \o GetSubstitution(repl, 1, pat, SubSeq(str, 1, pos), Slice(str, pos + Len(pat)))
         \o Slice(str, pos + Len(pat))

\* str.replace(pat, repl) with a string pat: the first occurrence only
StringReplace(str, pat, repl) == ReplaceAt(str, pat, repl, IndexOf(str, pat))

\* the loop of interpolate over the matches found in value
RECURSIVE InterpolateLoop(_, _, _)
InterpolateLoop(matches, result, resolved) ==
    IF matches = <<>> THEN [value |-> result, error |-> None]
    ELSE IF Head(matches) \notin DOMAIN resolved
    THEN [value |-> <<>>, error |-> Some(Head(matches))]
    ELSE InterpolateLoop(Tail(matches),
                         StringReplace(result, RefText(Head(matches)), resolved[Head(matches)]),
                         resolved)

interpolate(value, resolved) == InterpolateLoop(ExecAll(value, 1), value, resolved)

(***************************************************************************)
(* Interpolation: a value of up to MaxPieces pieces and a map of resolved   *)
(* values; the loop of interpolate runs one match a step.                   *)
(***************************************************************************)
MaxPieces == 3

ValuePieces == {RefText(<<"A">>), RefText(<<"B">>), <<"x">>, <<"$">>, <<"{", "A", "}">>}

InterpolatedValues == {Flatten(ps) : ps \in {<<>>} \cup SeqsUpTo(ValuePieces, MaxPieces)}

ResolvedPool ==
    {<<>>, <<"v">>, <<"$", "$">>, <<"$", "&">>, <<"$", "'">>, RefText(<<"B">>)}

ResolvedMaps ==
    UNION {[names -> ResolvedPool] : names \in SUBSET {<<"A">>, <<"B">>}}

InitInterpolate ==
    /\ ivalue \in InterpolatedValues
    /\ resolvedMap \in ResolvedMaps
    /\ iresult = [value |-> ivalue, error |-> None]
    /\ imatches = ExecAll(ivalue, 1)
    /\ ipc = "loop"
    /\ IdleRt /\ IdleM /\ IdleV /\ IdleRun /\ IdleF

\* a match whose name is resolved: result = result.replace(match[0], resolved)
Substitute ==
    /\ ipc = "loop"
    /\ imatches # <<>>
    /\ Head(imatches) \in DOMAIN resolvedMap
    /\ iresult' = [iresult EXCEPT !.value =
                      StringReplace(@, RefText(Head(imatches)), resolvedMap[Head(imatches)])]
    /\ imatches' = Tail(imatches)
    /\ UNCHANGED <<ivalue, resolvedMap, ipc>>
    /\ UNCHANGED <<rtVars, mVars, vVars, runVars, fVars>>

\* an interpolate that returns what it has substituted so far with the error
UndefinedReferencePartial ==
    /\ ipc = "loop"
    /\ imatches # <<>>
    /\ Head(imatches) \notin DOMAIN resolvedMap
    /\ iresult' = [value |-> iresult.value, error |-> Some(Head(imatches))]
    /\ ipc' = "returned"
    /\ UNCHANGED <<ivalue, resolvedMap, imatches>>
    /\ UNCHANGED <<rtVars, mVars, vVars, runVars, fVars>>

\* a match whose name is not resolved: return { value: '', error }
UndefinedReference ==
    /\ ipc = "loop"
    /\ imatches # <<>>
    /\ Head(imatches) \notin DOMAIN resolvedMap
    /\ iresult' = [value |-> <<>>, error |-> Some(Head(imatches))]
    /\ ipc' = "returned"
    /\ UNCHANGED <<ivalue, resolvedMap, imatches>>
    /\ UNCHANGED <<rtVars, mVars, vVars, runVars, fVars>>

\* pattern.exec returns null: return { value: result }
InterpolateReturn ==
    /\ ipc = "loop"
    /\ imatches = <<>>
    /\ ipc' = "returned"
    /\ UNCHANGED <<ivalue, resolvedMap, iresult, imatches>>
    /\ UNCHANGED <<rtVars, mVars, vVars, runVars, fVars>>

NextInterpolate == Substitute \/ UndefinedReference \/ InterpolateReturn

SpecInterpolate == InitInterpolate /\ [][NextInterpolate]_vars

\* value with every reference replaced by its resolved value, verbatim, from index i
RECURSIVE Replaced(_, _, _)
Replaced(s, i, resolved) ==
    IF i > Len(s) THEN <<>>
    ELSE IF IsSome(INTERPOLATION_PATTERN(s, i))
    THEN resolved[INTERPOLATION_PATTERN(s, i)[1]]
         \o Replaced(s, i + Len(RefText(INTERPOLATION_PATTERN(s, i)[1])), resolved)
    ELSE <<s[i]>> \o Replaced(s, i + 1, resolved)

AllReferencesResolved ==
    \A k \in DOMAIN ExecAll(ivalue, 1) : ExecAll(ivalue, 1)[k] \in DOMAIN resolvedMap

\* C3: when every referenced name is resolved, interpolate returns the value with
\* every reference replaced by exactly its resolved value, verbatim, everything
\* else unchanged, and no error.
C3_Interpolate ==
    (ipc = "returned" /\ AllReferencesResolved)
        => iresult = [value |-> Replaced(ivalue, 1, resolvedMap), error |-> None]

HasDollar(s) == \E k \in DOMAIN s : s[k] = "$"

\* the same when no resolved value holds a '$'
InterpolatePlain ==
    (/\ ipc = "returned" /\ AllReferencesResolved
     /\ \A n \in DOMAIN resolvedMap : ~HasDollar(resolvedMap[n]))
        => iresult = [value |-> Replaced(ivalue, 1, resolvedMap), error |-> None]

\* the whole function returns what the steps reach
InterpolateSteps == ipc = "returned" => iresult = interpolate(ivalue, resolvedMap)

(***************************************************************************)
(* template-validator.ts: extractInterpolationRefs and validate.  A message *)
(* is a record of its line, its variable, its fixed text and the names the  *)
(* text quotes.                                                             *)
(***************************************************************************)
extractInterpolationRefs(variable) ==
    IF variable.default.type # "static" THEN <<>> ELSE ExecAll(variable.default.value, 1)

Includes(s, x) == \E i \in DOMAIN s : s[i] = x

Message(variable, msg, detail) ==
    [line |-> variable.lineNumber, name |-> variable.name, message |-> msg, detail |-> detail]

ErrorIf(cond, variable, msg, detail) ==
    IF cond THEN <<Message(variable, msg, detail)>> ELSE <<>>

BooleanMessage == "boolean directive cannot be combined with other directives"
UrlEmailMessage == "url and email directives cannot be combined"
PortNumberMessage == "port and number directives are redundant"
OptionsMessage == "options cannot be combined with validation directives"
SecretMessage == "secret cannot be combined with directives"
RegexMessageText == "regex cannot be combined with directives"
UndefinedConditionMessage == "condition variable must be defined before this variable"
NotBooleanConditionMessage == "condition variable should have <boolean> directive"
SelfReferenceMessage == "cannot reference itself"
UndefinedReferenceMessage == "references undefined variable"

IsNotRequired(d) == d # "required"

IsConflicting(d) == d \in {"url", "email", "port", "number", "boolean"}

\* lines 30-34
BooleanErrors(variable) ==
    ErrorIf(Includes(variable.directives, "boolean") /\ Len(variable.directives) > 1,
            variable, BooleanMessage, <<>>)

\* lines 36-72
DirectiveErrors(variable) ==
    BooleanErrors(variable)
    \o ErrorIf(Includes(variable.directives, "url") /\ Includes(variable.directives, "email"),
               variable, UrlEmailMessage, <<>>)
    \o ErrorIf(Includes(variable.directives, "port") /\ Includes(variable.directives, "number"),
               variable, PortNumberMessage, <<>>)
    \o ErrorIf(/\ variable.default.type = "options" /\ Len(variable.directives) > 0
               /\ Len(SelectSeq(variable.directives, IsNotRequired)) > 0,
               variable, OptionsMessage, <<>>)
    \o ErrorIf(variable.default.type = "secret" /\ Len(variable.directives) > 0,
               variable, SecretMessage, <<>>)
    \o ErrorIf(IsSome(variable.regex)
               /\ Len(SelectSeq(variable.directives, IsConflicting)) > 0,
               variable, RegexMessageText, SelectSeq(variable.directives, IsConflicting))

\* a validate that accepts any earlier variable as a condition variable
ConditionErrorsAnyEarlier(variable, defined) ==
    IF ~IsSome(variable.condition) THEN <<>>
    ELSE ErrorIf(variable.condition[1].variable \notin DOMAIN defined,
                 variable, UndefinedConditionMessage, <<variable.condition[1].variable>>)

\* lines 74-85
ConditionErrors(variable, defined) ==
    IF ~IsSome(variable.condition) THEN <<>>
    ELSE IF variable.condition[1].variable \notin DOMAIN defined
    THEN <<Message(variable, UndefinedConditionMessage, <<variable.condition[1].variable>>)>>
    ELSE ErrorIf(~Includes(defined[variable.condition[1].variable].directives, "boolean"),
                 variable, NotBooleanConditionMessage, <<variable.condition[1].variable>>)

\* a validate that lets a variable reference itself once its name is defined
RefErrorNoSelf(variable, ref, defined) ==
    ErrorIf(ref \notin DOMAIN defined, variable, UndefinedReferenceMessage, <<ref>>)

\* lines 89-93, one reference
RefError(variable, ref, defined) ==
    IF ref = variable.name THEN <<Message(variable, SelfReferenceMessage, <<>>)>>
    ELSE ErrorIf(ref \notin DOMAIN defined, variable, UndefinedReferenceMessage, <<ref>>)

\* a validate that checks no reference
RefErrorsNone(variable, refs, defined) == <<>>

\* lines 87-94
RefErrors(variable, refs, defined) ==
    Flatten([k \in DOMAIN refs |-> RefError(variable, refs[k], defined)])

\* the body of the loop over the variables: the messages of one variable
VariableErrors(variable, defined) ==
    DirectiveErrors(variable)
    \o ConditionErrors(variable, defined)
    \o RefErrors(variable, extractInterpolationRefs(variable), defined)

RECURSIVE ValidateLoop(_, _, _, _)
ValidateLoop(vs, i, errs, defined) ==
    IF i > Len(vs) THEN errs
    ELSE ValidateLoop(vs, i + 1, errs \o VariableErrors(vs[i], defined),
                      MapSet(defined, vs[i].name, vs[i]))

validate(tpl) == ValidateLoop(getVariables(tpl), 1, <<>>, <<>>)

(***************************************************************************)
(* Validation: a template of up to MaxVars variables, parsed from a line or *)
(* built through the API (an options or secret default with directives);    *)
(* the loop of validate runs one variable a step.                           *)
(***************************************************************************)
MaxVars == 3

VariableLinePool ==
    { <<"A", "=", "<", "b", "o", "o", "l", "e", "a", "n", ">">>,
      <<"A", "=", "<", "b", "o", "o", "l", "e", "a", "n", ",", "r", "e", "q", "u", "i", "r", "e", "d", ">">>,
      <<"A", "=", "<", "b", "o", "o", "l", "e", "a", "n", ",", "b", "o", "o", "l", "e", "a", "n", ">">>,
      <<"B", "=", "<", "u", "r", "l", ",", "e", "m", "a", "i", "l", ">">>,
      <<"B", "=", "<", "p", "o", "r", "t", ",", "n", "u", "m", "b", "e", "r", ",", "r", "e", "g", "e", "x", ":", "/", "x", "/", ">">>,
      <<"B", "=", "<", "i", "f", ":", "A", ">">>,
      <<"A", "=", "<", "i", "f", ":", "B", ",", "b", "o", "o", "l", "e", "a", "n", ">">>,
      <<"B", "=", "$", "{", "A", "}">>,
      <<"C", "=", "$", "{", "C", "}", "$", "{", "D", "}">>,
      <<"A", "=", "1">> }

OptionsAB == [type |-> "options", choices |-> <<<<"a">>, <<"b">>>>, defaultChoice |-> None]

ApiPool ==
    { [name |-> <<"C">>, default |-> OptionsAB, directives |-> <<"url">>],
      [name |-> <<"C">>, default |-> OptionsAB, directives |-> <<"required">>],
      [name |-> <<"C">>, default |-> [type |-> "secret", length |-> 8, charset |-> None],
       directives |-> <<"required">>] }

\* the variable node of a pool entry at line lineNumber
NodeOf(entry, lineNumber) ==
    IF "line" \in DOMAIN entry
    THEN [type |-> "variable", lines |-> <<entry.line>>,
          variable |-> parseVariableLine(entry.line, None, None, lineNumber).variable]
    ELSE [type |-> "variable", lines |-> <<>>,
          variable |-> VariableOf(entry.name,
                                  [Plain(entry.default) EXCEPT !.directives = entry.directives],
                                  None, None, lineNumber).variable]

VariablePool == {[line |-> l] : l \in VariableLinePool} \cup ApiPool

ValidatedTemplates ==
    {[i \in DOMAIN es |-> NodeOf(es[i], i)] :
        es \in {<<>>} \cup SeqsUpTo(VariablePool, MaxVars)}

InitValidate ==
    /\ vvars \in {getVariables(tpl) : tpl \in ValidatedTemplates}
    /\ vidx = 1
    /\ errors = <<>>
    /\ definedVariables = <<>>
    /\ IdleRt /\ IdleM /\ IdleI /\ IdleRun /\ IdleF

\* lines 29-97: one iteration of the loop
ValidateVariable ==
    /\ vidx <= Len(vvars)
    /\ errors' = errors \o VariableErrors(vvars[vidx], definedVariables)
    /\ definedVariables' = MapSet(definedVariables, vvars[vidx].name, vvars[vidx])
    /\ vidx' = vidx + 1
    /\ UNCHANGED vvars
    /\ UNCHANGED <<rtVars, mVars, iVars, runVars, fVars>>

NextValidate == ValidateVariable

SpecValidate == InitValidate /\ [][NextValidate]_vars

Validated == vidx > Len(vvars)

\* the names of the variables that precede variable i of the template
NamesDefinedBefore(i) == {vvars[j].name : j \in 1 .. i - 1}

\* the nearest variable of that name before variable i
LastBefore(i, name) ==
    vvars[CHOOSE j \in 1 .. i - 1 :
              /\ vvars[j].name = name
              /\ \A k \in (j + 1) .. (i - 1) : vvars[k].name # name]

\* the messages of line i whose text is one of msgs, in the order of the result
MessagesOf(i, msgs) ==
    LET Picked(e) == e.line = i /\ e.message \in msgs
    IN  SelectSeq(errors, Picked)

ExpectedRefMessage(i, ref) ==
    IF ref = vvars[i].name THEN <<Message(vvars[i], SelfReferenceMessage, <<>>)>>
    ELSE IF ref \notin NamesDefinedBefore(i)
    THEN <<Message(vvars[i], UndefinedReferenceMessage, <<ref>>)>>
    ELSE <<>>

ExpectedRefMessages(i) ==
    Flatten([k \in DOMAIN extractInterpolationRefs(vvars[i]) |->
                ExpectedRefMessage(i, extractInterpolationRefs(vvars[i])[k])])

\* C4: for every variable validated so far and every reference in its static
\* default, in order: 'cannot reference itself' for its own name, 'references
\* undefined variable' for another name that no preceding variable has, nothing
\* for the name of a preceding, different variable; no other interpolation message.
C4_InterpolationRefs ==
    \A i \in 1 .. vidx - 1 :
        MessagesOf(i, {SelfReferenceMessage, UndefinedReferenceMessage}) = ExpectedRefMessages(i)

\* a validated template with a valid reference, a self-reference and a reference
\* to a name that is never defined
C4_Witness ==
    /\ Validated
    /\ \E i \in DOMAIN vvars :
           /\ extractInterpolationRefs(vvars[i]) # <<>>
           /\ MessagesOf(i, {SelfReferenceMessage, UndefinedReferenceMessage}) = <<>>
    /\ \E i \in DOMAIN vvars :
           /\ Includes(extractInterpolationRefs(vvars[i]), vvars[i].name)
           /\ Len(MessagesOf(i, {SelfReferenceMessage})) = 1
           /\ Len(MessagesOf(i, {UndefinedReferenceMessage})) = 1

ExpectedConditionMessages(i) ==
    IF ~IsSome(vvars[i].condition) THEN <<>>
    ELSE IF vvars[i].condition[1].variable \notin NamesDefinedBefore(i)
    THEN <<Message(vvars[i], UndefinedConditionMessage, <<vvars[i].condition[1].variable>>)>>
    ELSE IF ~Includes(LastBefore(i, vvars[i].condition[1].variable).directives, "boolean")
    THEN <<Message(vvars[i], NotBooleanConditionMessage, <<vvars[i].condition[1].variable>>)>>
    ELSE <<>>

\* C10: for every variable validated so far that has <if:VAR>: 'must be defined
\* before this variable' when no preceding variable is named VAR (a VAR defined
\* only later included), 'should have <boolean> directive' when the preceding VAR
\* (the nearest, if the name is defined twice) lacks boolean, no condition message
\* when it carries boolean; a variable without a condition gets none.
C10_Condition ==
    \A i \in 1 .. vidx - 1 :
        MessagesOf(i, {UndefinedConditionMessage, NotBooleanConditionMessage})
            = ExpectedConditionMessages(i)

\* a validated template with the three cases: VAR defined only later, VAR earlier
\* without boolean, VAR earlier with boolean
C10_Witness ==
    /\ Validated
    /\ \E i \in DOMAIN vvars :
           /\ IsSome(vvars[i].condition)
           /\ vvars[i].condition[1].variable \notin NamesDefinedBefore(i)
           /\ \E j \in (i + 1) .. Len(vvars) : vvars[j].name = vvars[i].condition[1].variable
           /\ Len(MessagesOf(i, {UndefinedConditionMessage})) = 1
    /\ \E i \in DOMAIN vvars : Len(MessagesOf(i, {NotBooleanConditionMessage})) = 1
    /\ \E i \in DOMAIN vvars :
           /\ IsSome(vvars[i].condition)
           /\ MessagesOf(i, {UndefinedConditionMessage, NotBooleanConditionMessage}) = <<>>

\* the six conflict rules as the rule book words them, with the text of their message
HasOther(directives, d) == \E k \in DOMAIN directives : directives[k] # d

ViolatedRules(variable) ==
    {r \in {BooleanMessage, UrlEmailMessage, PortNumberMessage, OptionsMessage,
            SecretMessage, RegexMessageText} :
        \/ /\ r = BooleanMessage
           /\ Includes(variable.directives, "boolean")
           /\ HasOther(variable.directives, "boolean")
        \/ /\ r = UrlEmailMessage
           /\ Includes(variable.directives, "url") /\ Includes(variable.directives, "email")
        \/ /\ r = PortNumberMessage
           /\ Includes(variable.directives, "port") /\ Includes(variable.directives, "number")
        \/ /\ r = OptionsMessage
           /\ variable.default.type = "options"
           /\ HasOther(variable.directives, "required")
        \/ /\ r = SecretMessage
           /\ variable.default.type = "secret"
           /\ variable.directives # <<>>
        \/ /\ r = RegexMessageText
           /\ IsSome(variable.regex)
           /\ \E k \in DOMAIN variable.directives : IsConflicting(variable.directives[k])}

ConflictMessages ==
    {BooleanMessage, UrlEmailMessage, PortNumberMessage, OptionsMessage, SecretMessage,
     RegexMessageText}

NoRuleViolated ==
    \A i \in DOMAIN vvars :
        /\ ViolatedRules(vvars[i]) = {}
        /\ ExpectedConditionMessages(i) = <<>>
        /\ ExpectedRefMessages(i) = <<>>

OnePerRule(i) ==
    /\ \A r \in ConflictMessages :
           Len(MessagesOf(i, {r})) = IF r \in ViolatedRules(vvars[i]) THEN 1 ELSE 0
    /\ \A k \in DOMAIN MessagesOf(i, {RegexMessageText}) :
           MessagesOf(i, {RegexMessageText})[k].detail
               = SelectSeq(vvars[i].directives, IsConflicting)

InDocumentOrder == \A j, k \in DOMAIN errors : j < k => errors[j].line <= errors[k].line

\* C9: the result of validate holds exactly one message for each conflict rule a
\* variable violates (boolean with another directive, url with email, port with
\* number, options with a directive other than required, secret with a directive,
\* regex with url, email, port, number or boolean, the message naming them) and
\* none for a rule it does not violate, for all variables, in document order, and
\* is empty exactly when no variable violates a rule.
C9_OnePerRule ==
    Validated =>
        /\ \A i \in DOMAIN vvars : OnePerRule(i)
        /\ InDocumentOrder
        /\ (errors = <<>>) <=> NoRuleViolated

NoDuplicateDirectives ==
    \A i \in DOMAIN vvars : \A j, k \in DOMAIN vvars[i].directives :
        vvars[i].directives[j] = vvars[i].directives[k] => j = k

\* the same for templates in which no variable names a directive twice
OnePerRuleNoDuplicates ==
    (Validated /\ NoDuplicateDirectives) =>
        /\ \A i \in DOMAIN vvars : OnePerRule(i)
        /\ InDocumentOrder
        /\ (errors = <<>>) <=> NoRuleViolated

(***************************************************************************)
(* resolver.ts: the charset presets, generateSecret and resolve.            *)
(***************************************************************************)
UpperSeq == <<"A", "B", "C", "D", "E", "F", "G", "H", "I", "J", "K", "L", "M", "N", "O", "P", "Q", "R", "S", "T", "U", "V", "W", "X", "Y", "Z">>
LowerSeq == <<"a", "b", "c", "d", "e", "f", "g", "h", "i", "j", "k", "l", "m", "n", "o", "p", "q", "r", "s", "t", "u", "v", "w", "x", "y", "z">>
DigitSeq == <<"0", "1", "2", "3", "4", "5", "6", "7", "8", "9">>

CHARSET_PRESETS ==
    [alnum |-> UpperSeq \o LowerSeq \o DigitSeq,
     alpha |-> UpperSeq \o LowerSeq,
     lower |-> LowerSeq,
     upper |-> UpperSeq,
     num |-> DigitSeq,
     hex |-> DigitSeq \o SubSeq(LowerSeq, 1, 6),
     HEX |-> DigitSeq \o SubSeq(UpperSeq, 1, 6),
     special |-> <<"!", "@", "#", "$", "%", "^", "&", "*", "(", ")", "-", "_", "=", "+">>]

\* the keys of CHARSET_PRESETS, spelled
PresetNames ==
    [alnum |-> <<"a", "l", "n", "u", "m">>,
     alpha |-> <<"a", "l", "p", "h", "a">>,
     lower |-> <<"l", "o", "w", "e", "r">>,
     upper |-> <<"u", "p", "p", "e", "r">>,
     num |-> <<"n", "u", "m">>,
     hex |-> <<"h", "e", "x">>,
     HEX |-> <<"H", "E", "X">>,
     special |-> <<"s", "p", "e", "c", "i", "a", "l">>]

\* CHARSET_PRESETS[part]: None when there is no such key
PresetOf(part) ==
    IF IsSome(WordOf(PresetNames, part))
    THEN Some(CHARSET_PRESETS[WordOf(PresetNames, part)[1]])
    ELSE None

\* no character removed
DeduplicateNone(s, seen) == s

\* [...new Set(result)].join(''): the first occurrence of every character
RECURSIVE Deduplicate(_, _)
Deduplicate(s, seen) ==
    IF s = <<>> THEN <<>>
    ELSE IF Head(s) \in seen THEN Deduplicate(Tail(s), seen)
    ELSE <<Head(s)>> \o Deduplicate(Tail(s), seen \cup {Head(s)})

\* the loop over the parts: the presets concatenated, or the unknown part thrown
RECURSIVE ExpandParts(_, _)
ExpandParts(parts, result) ==
    IF parts = <<>> THEN [ok |-> TRUE, chars |-> Deduplicate(result, {})]
    ELSE IF ~IsSome(PresetOf(Head(parts))) \/ PresetOf(Head(parts)) = Some(<<>>)
    THEN Fail("Unknown charset preset", Head(parts))
    ELSE ExpandParts(Tail(parts), result \o PresetOf(Head(parts))[1])

\* charsetStr is None (undefined) or Some(string)
expandCharset(charsetStr) ==
    IF ~IsSome(charsetStr) \/ charsetStr = Some(<<>>)
    THEN [ok |-> TRUE, chars |-> CHARSET_PRESETS.alnum]
    ELSE ExpandParts(Split(charsetStr[1], "+"), <<>>)

SecretOf(length, expanded, bytes) ==
    IF ~expanded.ok THEN expanded
    ELSE [ok |-> TRUE,
          value |-> [i \in 1 .. length |-> expanded.chars[(bytes[i] % Len(expanded.chars)) + 1]]]

\* generateSecret with the bytes that randomBytes(length) returned
generateSecret(length, charset, bytes) == SecretOf(length, expandCharset(charset), bytes)

\* a failure that sets no error
executeShellCommandSilent(outcome) ==
    IF outcome.ok THEN [ok |-> TRUE, value |-> Trim(outcome.stdout), error |-> None]
    ELSE [ok |-> TRUE, value |-> <<>>, error |-> None]

\* executeShellCommand with what execSync did: its output, or a failure
executeShellCommand(outcome) ==
    IF outcome.ok THEN [ok |-> TRUE, value |-> Trim(outcome.stdout), error |-> None]
    ELSE [ok |-> TRUE, value |-> <<>>, error |-> Some("Shell command failed")]

SecretResult(secret) ==
    IF secret.ok THEN [ok |-> TRUE, value |-> secret.value, error |-> None] ELSE secret

\* the first choice whatever is starred
OptionsValueFirst(default) == IF default.choices # <<>> THEN default.choices[1] ELSE <<>>

\* defaultValue.defaultChoice ?? defaultValue.choices[0] ?? ''
OptionsValue(default) ==
    IF IsSome(default.defaultChoice) THEN default.defaultChoice[1]
    ELSE IF default.choices # <<>> THEN default.choices[1]
    ELSE <<>>

\* resolve(defaultValue) given the outcome of the shell command and the random
\* bytes, were they asked for; ok is FALSE when it throws
resolve(default, outcome, bytes) ==
    IF default.type = "none" THEN [ok |-> TRUE, value |-> <<>>, error |-> None]
    ELSE IF default.type = "static" THEN [ok |-> TRUE, value |-> default.value, error |-> None]
    ELSE IF default.type = "shell" THEN executeShellCommand(outcome)
    ELSE IF default.type = "secret"
    THEN SecretResult(generateSecret(default.length, default.charset, bytes))
    ELSE [ok |-> TRUE, value |-> OptionsValue(default), error |-> None]

(***************************************************************************)
(* validator.ts: normalizeBoolean.                                          *)
(***************************************************************************)
LowerOf(c) ==
    IF c \in UpperChars THEN LowerSeq[CHOOSE i \in DOMAIN UpperSeq : UpperSeq[i] = c] ELSE c

toLowerCase(s) == [i \in DOMAIN s |-> LowerOf(s[i])]

TrueWords == {<<"y", "e", "s">>, <<"t", "r", "u", "e">>, <<"1">>, <<"y">>}

FalseWords == {<<"n", "o">>, <<"f", "a", "l", "s", "e">>, <<"0">>, <<"n">>}

\* "true", "false" or "null"
normalizeBoolean(value) ==
    IF Trim(toLowerCase(value)) \in TrueWords THEN "true"
    ELSE IF Trim(toLowerCase(value)) \in FalseWords THEN "false"
    ELSE "null"

(***************************************************************************)
(* writer.ts: read.                                                         *)
(***************************************************************************)
\* s.replace(/ab/g, r) for a two-character ab
RECURSIVE ReplaceAllPair(_, _, _, _)
ReplaceAllPair(s, a, b, r) ==
    IF Len(s) < 2 THEN s
    ELSE IF s[1] = a /\ s[2] = b THEN <<r>> \o ReplaceAllPair(Slice(s, 2), a, b, r)
    ELSE <<s[1]>> \o ReplaceAllPair(Tail(s), a, b, r)

\* value.replace(/\\"/g, '"').replace(/\\\$/g, '$').replace(/\\\\/g, '\\')
Unescape(value) ==
    ReplaceAllPair(ReplaceAllPair(ReplaceAllPair(value, "\\", "\"", "\""), "\\", "$", "$"),
                   "\\", "\\", "\\")

Quoted(value, q) == StartsWith(value, <<q>>) /\ EndsWith(value, <<q>>)

\* value.slice(1, -1) when the value starts and ends with the same quote
Unquote(value) ==
    IF Quoted(value, "\"") \/ Quoted(value, "'")
    THEN (IF Len(value) >= 2 THEN SubSeq(value, 2, Len(value) - 1) ELSE <<>>)
    ELSE value

\* values.set(name, value) on a Map, whose entries keep their insertion order
EntrySet(entries, name, value) ==
    IF \E i \in DOMAIN entries : entries[i].name = name
    THEN [i \in DOMAIN entries |->
             IF entries[i].name = name THEN [name |-> name, value |-> value] ELSE entries[i]]
    ELSE Append(entries, [name |-> name, value |-> value])

EntryHas(entries, name) == \E i \in DOMAIN entries : entries[i].name = name

EntryGet(entries, name) == entries[CHOOSE i \in DOMAIN entries : entries[i].name = name].value

ReadLine(vals, trimmed, equalsIndex) ==
    IF trimmed = <<>> \/ trimmed[1] = "#" \/ equalsIndex = -1 THEN vals
    ELSE EntrySet(vals, SubSeq(trimmed, 1, equalsIndex),
                  Unescape(Unquote(Slice(trimmed, equalsIndex + 1))))

RECURSIVE ReadLines(_, _)
ReadLines(lines, vals) ==
    IF lines = <<>> THEN vals
    ELSE ReadLines(Tail(lines),
                   ReadLine(vals, Trim(Head(lines)), IndexOfFrom(Trim(Head(lines)), "=", 0)))

\* read(filePath) with the file's content, None when the file does not exist; the
\* Map it returns is the sequence of its entries
read(file) == IF ~IsSome(file) THEN <<>> ELSE ReadLines(Split(file[1], "\n"), <<>>)

(***************************************************************************)
(* prompter.ts: the loop of promptForVariables, one variable a step.  The   *)
(* trace records what the pass did to the outside world: for variable i     *)
(* the events kept, skipped, resolve (resolveDefault called), shell (a      *)
(* command executed), secret (random bytes drawn), prompt (a prompt shown), *)
(* cancel (the user cancelled it); for the run (i = 0) its stages.          *)
(***************************************************************************)
Event(i, ev) == [i |-> i, ev |-> ev]

\* the symbol a cancelled prompt returns
CancelSymbol == <<"Symbol(clack:cancel)">>

\* a pass that takes the cancel symbol for an answer
isUserCancelledNever(value) == FALSE

isUserCancelled(value) == value = CancelSymbol

createResolvedVariable(name, value, section) ==
    [name |-> name, value |-> value, section |-> section]

\* a pass that lets every conditional variable through
evaluateConditionAlways(condition, resolved) == TRUE

evaluateCondition(condition, resolved) ==
    IF condition.variable \notin DOMAIN resolved THEN TRUE
    ELSE normalizeBoolean(resolved[condition.variable]) = "true"

\* a pass that keeps nothing from the existing file
IsKeptNever(variable, merge, existing) == FALSE

\* line 46: options.merge && options.existingValues.has(variable.name)
IsKept(variable, merge, existing) == merge /\ EntryHas(existing, variable.name)

\* line 56: variable.condition && !evaluateCondition(variable.condition, resolvedValues)
IsSkipped(variable, resolved) ==
    IsSome(variable.condition) /\ ~evaluateCondition(variable.condition[1], resolved)

\* validator.ts createValidator, for the directive the prompted variables of this
\* model carry: a required value is not blank
ValidAnswer(variable, value) ==
    Includes(variable.directives, "required") => Trim(value) # <<>>

TypedAnswers == {<<>>, <<"v">>}

\* what promptForVariable can return: for a boolean 'true' or 'false', for options a
\* choice, else a typed text the validator accepts or the default offered
PromptResults(variable, defaultValue) ==
    IF Includes(variable.directives, "boolean")
    THEN {<<"t", "r", "u", "e">>, <<"f", "a", "l", "s", "e">>}
    ELSE IF variable.default.type = "options" THEN Range(variable.default.choices)
    ELSE {a \in TypedAnswers : ValidAnswer(variable, a)}
         \cup (IF defaultValue # <<>> THEN {defaultValue} ELSE {})

\* what execSync can do with the command of a shell default
ShellOutcomes(default) ==
    IF default.type = "shell"
    THEN {[ok |-> TRUE, stdout |-> out] : out \in {<<"o", "\n">>, <<" ", "\n">>}}
         \cup {[ok |-> FALSE, failure |-> f] : f \in {"exit", "timeout", "spawn"}}
    ELSE {[ok |-> FALSE, failure |-> "none"]}

ByteSamples == {0, 255}

\* what randomBytes(length) can return for a secret default
RandomBytes(default) ==
    IF default.type = "secret" THEN [1 .. default.length -> ByteSamples] ELSE {<<>>}

\* the events of resolveDefault(variable.default) for variable i
ShellEvent(i, outcome, resolved) ==
    [i |-> i, ev |-> "shell", outcome |-> outcome, resolved |-> resolved]

\* the default that the pass offers for a variable: the text of a static
\* default with its ${NAME} references replaced from the values resolved so
\* far, any other default as resolve computes it; an undefined reference is
\* the error of interpolate
resolveDefault(default, outcome, resolved) ==
    IF default.type = "static"
    THEN [ok |-> TRUE, value |-> interpolate(default.value, resolved).value,
          error |-> interpolate(default.value, resolved).error]
    ELSE resolve(default, outcome, <<>>)

InterpolationThrows(default, resolved) ==
    default.type = "static" /\ IsSome(interpolate(default.value, resolved).error)

\* the interpolation of a static default: the names it references and the
\* keys of resolvedValues at that moment
InterpolateEvent(i, value, resolved) ==
    [i |-> i, ev |-> "interpolate", refs |-> ExecAll(value, 1), keys |-> DOMAIN resolved]

ResolveEvents(i, default, outcome, resolved) ==
    <<Event(i, "resolve")>>
    \o (IF default.type = "static"
        THEN <<InterpolateEvent(i, default.value, resolved)>>
             \o (IF InterpolationThrows(default, resolved)
                 THEN <<Event(i, "undefined")>> ELSE <<>>)
        ELSE <<>>)
    \o (IF default.type = "shell"
        THEN <<ShellEvent(i, outcome, resolve(default, outcome, <<>>))>> ELSE <<>>)
    \o (IF default.type = "secret" THEN <<Event(i, "secret")>> ELSE <<>>)

ZeroStats == [prompted |-> 0, defaults |-> 0, kept |-> 0, generated |-> 0, skipped |-> 0]

(***************************************************************************)
(* cli.ts: run, from the options and the files it finds to the exit.  The   *)
(* steps are the stretches of run between its exits and its await.          *)
(***************************************************************************)
MaxRunLines == 2

RunLinePool ==
    { <<"F", "=", "<", "b", "o", "o", "l", "e", "a", "n", ">">>,
      <<"X", "=", "<", "i", "f", ":", "F", ">">>,
      <<"S", "=", Backquote, "c", Backquote>>,
      <<"K", "=", "<", "s", "e", "c", "r", "e", "t", ":", "2", ">">>,
      <<"B", "=", "<", "s", "e", "c", "r", "e", "t", ":", "1", ":", "b", "o", "g", "u", "s", ">">>,
      <<"R", "=", "<", "r", "e", "q", "u", "i", "r", "e", "d", ">">>,
      <<"A", "=", "1">>,
      <<"A", "=", "<", "x", ">">>,
      <<"Y", "=", "$", "{", "A", "}">> }

\* a default that references a variable which a false condition skips, and one
\* that references a generated secret twice
ReferenceTexts ==
    { Join(<< <<"F", "=", "<", "b", "o", "o", "l", "e", "a", "n", ">">>,
              <<"X", "=", "<", "i", "f", ":", "F", ">">>,
              <<"Y", "=", "$", "{", "X", "}">> >>, "\n"),
      Join(<< <<"K", "=", "<", "s", "e", "c", "r", "e", "t", ":", "2", ">">>,
              <<"Y", "=", "$", "{", "K", "}", "$", "{", "K", "}">> >>, "\n") }

RunTexts ==
    {Join(ls, "\n") : ls \in {<<>>} \cup SeqsUpTo(RunLinePool, MaxRunLines)}
    \cup ReferenceTexts

\* a second input file: missing, an override, a broken one, one naming B twice
SecondFiles ==
    { None, Some(<<"A", "=", "2">>), Some(<<"A", "=", "<", "x", ">">>), Some(<<"B", "=", "2", "\n", "B", "=", "3">>) }

InputLists ==
    {<<None>>} \cup {<<Some(txt)>> : txt \in RunTexts}
    \cup {<<Some(<<"A", "=", "1">>), f>> : f \in SecondFiles}

\* the output file before the run: absent, or one of two contents
ExistingOutputs ==
    { None, Some(<<"X", "=", "o", "l", "d", "\n", "E", "=", "1">>), Some(<<"F", "=", "n", "o", "\n", "A", "=", "\"", "o", " ", "k", "\"">>) }

InitRun ==
    /\ options \in [defaults : BOOLEAN, overwrite : BOOLEAN, dryRun : BOOLEAN]
    /\ world \in [inputs : InputLists, output : ExistingOutputs]
    /\ pc = "start"
    /\ merged = None
    /\ cliErrors = None
    /\ variables = <<>>
    /\ existingValues = <<>>
    /\ idx = 0
    /\ results = <<>>
    /\ resolvedValues = <<>>
    /\ stats = ZeroStats
    /\ trace = <<>>
    /\ written = None
    /\ IdleRt /\ IdleM /\ IdleI /\ IdleV /\ IdleF

RunFrame == UNCHANGED <<rtVars, mVars, iVars, vVars, fVars, options, world>>

\* lines 30-37: a missing input file is exit(1)
CheckFiles ==
    /\ pc = "start"
    /\ pc' = IF \E i \in DOMAIN world.inputs : ~IsSome(world.inputs[i]) THEN "exit1" ELSE "parse"
    /\ trace' = IF pc' = "parse" THEN Append(trace, Event(0, "exists")) ELSE trace
    /\ UNCHANGED <<merged, cliErrors, variables, existingValues, idx, results, resolvedValues,
                   stats, written>>
    /\ RunFrame

ParsedInputs(files) ==
    [i \in DOMAIN files |-> [template |-> parse(files[i][1]), filename |-> Filename(i)]]

AllParsed(ins) == \A i \in DOMAIN ins : ins[i].template.ok

\* lines 40-44: parse every input and merge; a parse error is caught, exit(1)
ParseInputs ==
    /\ pc = "parse"
    /\ merged' = IF AllParsed(ParsedInputs(world.inputs))
                 THEN Some(mergeTemplates(ParsedInputs(world.inputs)).nodes) ELSE None
    /\ pc' = IF IsSome(merged') THEN "validate" ELSE "exit1"
    /\ trace' = IF IsSome(merged') THEN Append(trace, Event(0, "parsed")) ELSE trace
    /\ UNCHANGED <<cliErrors, variables, existingValues, idx, results, resolvedValues,
                   stats, written>>
    /\ RunFrame

\* a run that goes on whatever validate returns
ValidationPasses(errs) == TRUE

\* line 47 negated: errors.length > 0 is exit(1)
ValidationPassed(errs) == errs = <<>>

\* lines 46-61: validate, count the variables, read the existing values
ValidateTemplate ==
    /\ pc = "validate"
    /\ cliErrors' = Some(validate(merged[1]))
    /\ trace' = Append(trace, Event(0, "validated"))
    /\ IF ~ValidationPassed(cliErrors'[1])
       THEN pc' = "exit1" /\ UNCHANGED <<variables, existingValues, idx>>
       ELSE IF getVariables(merged[1]) = <<>>
       THEN pc' = "exit0" /\ UNCHANGED <<variables, existingValues, idx>>
       ELSE /\ pc' = "prompt"
            /\ variables' = getVariables(merged[1])
            /\ existingValues' = IF options.overwrite THEN <<>> ELSE read(world.output)
            /\ idx' = 1
    /\ UNCHANGED <<merged, results, resolvedValues, stats, written>>
    /\ RunFrame

InLoop == pc = "prompt" /\ idx <= Len(variables)

\* results.push, resolvedValues.set, stats.<counter>++ and on to the next variable
Resolved(value, counter, events) ==
    /\ results' = Append(results, createResolvedVariable(variables[idx].name, value,
                                                         variables[idx].section))
    /\ resolvedValues' = MapSet(resolvedValues, variables[idx].name, value)
    /\ stats' = [stats EXCEPT ![counter] = @ + 1]
    /\ trace' = trace \o events
    /\ idx' = idx + 1
    /\ UNCHANGED <<pc, merged, cliErrors, variables, existingValues, written>>
    /\ RunFrame

\* the pass ends without a result (null, or a throw that run catches): exit(1)
Aborted(events) ==
    /\ pc' = "exit1"
    /\ trace' = trace \o events \o <<Event(0, "null")>>
    /\ UNCHANGED <<merged, cliErrors, variables, existingValues, idx, results, resolvedValues,
                   stats, written>>
    /\ RunFrame

\* lines 46-54
KeepExisting ==
    /\ InLoop
    /\ IsKept(variables[idx], ~options.overwrite, existingValues)
    /\ Resolved(EntryGet(existingValues, variables[idx].name), "kept", <<Event(idx, "kept")>>)

\* the variable is neither kept nor skipped: resolveDefault is called
Reached ==
    /\ InLoop
    /\ ~IsKept(variables[idx], ~options.overwrite, existingValues)
    /\ ~IsSkipped(variables[idx], resolvedValues)

\* a pass that does not count the variables it skips
SkipConditionalUncounted ==
    /\ InLoop
    /\ ~IsKept(variables[idx], ~options.overwrite, existingValues)
    /\ IsSkipped(variables[idx], resolvedValues)
    /\ results' = Append(results, createResolvedVariable(variables[idx].name, <<>>,
                                                         variables[idx].section))
    /\ resolvedValues' = MapSet(resolvedValues, variables[idx].name, <<>>)
    /\ trace' = Append(trace, Event(idx, "skipped"))
    /\ idx' = idx + 1
    /\ UNCHANGED <<pc, merged, cliErrors, variables, existingValues, written, stats>>
    /\ RunFrame

\* lines 56-61
SkipConditional ==
    /\ InLoop
    /\ ~IsKept(variables[idx], ~options.overwrite, existingValues)
    /\ IsSkipped(variables[idx], resolvedValues)
    /\ Resolved(<<>>, "skipped", <<Event(idx, "skipped")>>)

\* lines 70-81: a secret default; an unknown charset preset throws
GenerateSecret ==
    /\ Reached
    /\ variables[idx].default.type = "secret"
    /\ \E bytes \in RandomBytes(variables[idx].default) :
           IF resolve(variables[idx].default, [ok |-> FALSE], bytes).ok
           THEN Resolved(resolve(variables[idx].default, [ok |-> FALSE], bytes).value,
                         "generated",
                         ResolveEvents(idx, variables[idx].default, [ok |-> FALSE],
                                       resolvedValues))
           ELSE Aborted(<<Event(idx, "resolve")>>)

RequiredMissing(variable, value) == Includes(variable.directives, "required") /\ value = <<>>

\* lines 70, 83-92: --defaults takes the resolved default; an undefined
\* reference in a static default ends the run
AcceptDefault ==
    /\ Reached
    /\ variables[idx].default.type # "secret"
    /\ options.defaults
    /\ \E outcome \in ShellOutcomes(variables[idx].default) :
           IF InterpolationThrows(variables[idx].default, resolvedValues)
           THEN Aborted(ResolveEvents(idx, variables[idx].default, outcome, resolvedValues))
           ELSE /\ ~RequiredMissing(variables[idx],
                                    resolveDefault(variables[idx].default, outcome,
                                                   resolvedValues).value)
                /\ Resolved(resolveDefault(variables[idx].default, outcome,
                                           resolvedValues).value, "defaults",
                            ResolveEvents(idx, variables[idx].default, outcome,
                                          resolvedValues))

\* lines 70, 83-87: --defaults and a required variable without a default: return null
RequiredWithoutDefault ==
    /\ Reached
    /\ variables[idx].default.type # "secret"
    /\ options.defaults
    /\ \E outcome \in ShellOutcomes(variables[idx].default) :
           /\ ~InterpolationThrows(variables[idx].default, resolvedValues)
           /\ RequiredMissing(variables[idx],
                              resolveDefault(variables[idx].default, outcome,
                                             resolvedValues).value)
           /\ Aborted(ResolveEvents(idx, variables[idx].default, outcome, resolvedValues))

\* the events of a prompt that returned result
PromptEvents(i, result) ==
    <<Event(i, "prompt")>> \o (IF result = CancelSymbol THEN <<Event(i, "cancel")>> ELSE <<>>)

\* lines 70, 94-103: the prompt returns a value; an undefined reference in a
\* static default ends the run before the prompt
PromptAnswer ==
    /\ Reached
    /\ variables[idx].default.type # "secret"
    /\ ~options.defaults
    /\ \E outcome \in ShellOutcomes(variables[idx].default) :
       \E result \in PromptResults(variables[idx],
                                   resolveDefault(variables[idx].default, outcome,
                                                  resolvedValues).value)
                     \cup {CancelSymbol} :
           IF InterpolationThrows(variables[idx].default, resolvedValues)
           THEN Aborted(ResolveEvents(idx, variables[idx].default, outcome, resolvedValues))
           ELSE /\ ~isUserCancelled(result)
                /\ Resolved(result, "prompted",
                            ResolveEvents(idx, variables[idx].default, outcome,
                                          resolvedValues)
                            \o PromptEvents(idx, result))

\* lines 70, 94-99: the user cancels the prompt: return null
PromptCancel ==
    /\ Reached
    /\ variables[idx].default.type # "secret"
    /\ ~options.defaults
    /\ isUserCancelled(CancelSymbol)
    /\ ~InterpolationThrows(variables[idx].default, resolvedValues)
    /\ \E outcome \in ShellOutcomes(variables[idx].default) :
           Aborted(ResolveEvents(idx, variables[idx].default, outcome, resolvedValues)
                   \o PromptEvents(idx, CancelSymbol))

HasHole(ns) == \E i \in DOMAIN ns : ns[i] = Hole

\* lines 77-83: the entries of the existing file that the template does not name
ExtraVariables(existing, vs) ==
    LET IsExtra(e) == \A i \in DOMAIN vs : vs[i].name # e.name
    IN  SelectSeq(existing, IsExtra)

\* line 86: new Map(result.variables.map(v => [v.name, v.value]))
RECURSIVE ValuesOfResults(_, _)
ValuesOfResults(rs, vals) ==
    IF rs = <<>> THEN vals
    ELSE ValuesOfResults(Tail(rs), MapSet(vals, Head(rs).name, Head(rs).value))

Content == generate(merged[1], ValuesOfResults(results, <<>>),
                    ExtraVariables(existingValues, variables))

PassReturned == pc = "prompt" /\ idx > Len(variables)

FinishFrame ==
    /\ UNCHANGED <<merged, cliErrors, variables, existingValues, idx, results, resolvedValues,
                   stats>>
    /\ RunFrame

\* line 87: generate meets an empty slot of the merged node list: a TypeError, exit(1)
GenerateThrows ==
    /\ PassReturned
    /\ HasHole(merged[1])
    /\ pc' = "exit1"
    /\ UNCHANGED <<trace, written>>
    /\ FinishFrame

\* lines 89-93: --dry-run prints the content
PrintPreview ==
    /\ PassReturned
    /\ ~HasHole(merged[1])
    /\ options.dryRun
    /\ pc' = "done"
    /\ trace' = Append(trace, Event(0, "print"))
    /\ UNCHANGED written
    /\ FinishFrame

\* lines 94-95: write(options.output, content)
WriteOutput ==
    /\ PassReturned
    /\ ~HasHole(merged[1])
    /\ ~options.dryRun
    /\ pc' = "done"
    /\ written' = Some(Content)
    /\ trace' = Append(trace, Event(0, "write"))
    /\ FinishFrame

\* lines 94-95, 108-112: writeFileSync fails, write throws, exit(1)
WriteFails ==
    /\ PassReturned
    /\ ~HasHole(merged[1])
    /\ ~options.dryRun
    /\ pc' = "exit1"
    /\ UNCHANGED <<trace, written>>
    /\ FinishFrame

NextRun ==
    \/ CheckFiles \/ ParseInputs \/ ValidateTemplate
    \/ KeepExisting \/ SkipConditional \/ GenerateSecret \/ AcceptDefault
    \/ RequiredWithoutDefault \/ PromptAnswer \/ PromptCancel
    \/ GenerateThrows \/ PrintPreview \/ WriteOutput \/ WriteFails

SpecRun == InitRun /\ [][NextRun]_vars

\* the events of variable i, in the order of the trace
EventsOf(i) ==
    LET OfVariable(e) == e.i = i
    IN  [k \in DOMAIN SelectSeq(trace, OfVariable) |-> SelectSeq(trace, OfVariable)[k].ev]

\* the existing output file names the variable and the run is not --overwrite
InExistingFile(i) == ~options.overwrite /\ EntryHas(read(world.output), variables[i].name)

\* the value the condition variable of variable i resolved to: that of the nearest
\* earlier result of that name (validate passed, so there is one)
FlagValue(i) ==
    results[CHOOSE j \in 1 .. i - 1 :
                /\ results[j].name = variables[i].condition[1].variable
                /\ \A k \in (j + 1) .. (i - 1) :
                       results[k].name # variables[i].condition[1].variable].value

FlagOff(i) == normalizeBoolean(FlagValue(i)) = "false" \/ FlagValue(i) = <<>>

FlagOn(i) == normalizeBoolean(FlagValue(i)) = "true"

\* FLAG off: "" and nothing but the skip; FLAG on: not skipped, the default resolved
\* unless the value is kept from the existing file
Gated(i) ==
    /\ FlagOff(i) => results[i].value = <<>> /\ EventsOf(i) = <<"skipped">>
    /\ FlagOn(i) => Includes(EventsOf(i), "resolve") \/ EventsOf(i) = <<"kept">>

\* C5 as stated: in every run, with any existing output file, every resolved variable
\* with <if:FLAG> is "" with no prompt and no default resolved when FLAG resolved to
\* false or "", and is resolved normally (kept, prompted or defaulted) when FLAG
\* resolved true.
C5_GatingAnyRun ==
    \A i \in 1 .. Len(results) : IsSome(variables[i].condition) => Gated(i)

\* C5, amended: the same for every variable that is not kept from the existing
\* output file (the run is --overwrite, or the file does not name the variable).
C5_GatingUnlessKept ==
    \A i \in 1 .. Len(results) :
        (IsSome(variables[i].condition) /\ ~InExistingFile(i)) => Gated(i)

\* a run without --overwrite whose existing file names FLAG (kept as "no") and not X:
\* X is skipped
C5_Witness ==
    /\ ~options.overwrite /\ IsSome(world.output)
    /\ \E i \in 1 .. Len(results) :
           /\ IsSome(variables[i].condition) /\ ~InExistingFile(i)
           /\ FlagValue(i) = <<"n", "o">>
           /\ results[i].value = <<>> /\ EventsOf(i) = <<"skipped">>
           /\ stats.skipped = 1 /\ stats.kept = 1

VariableEvents == SelectSeq(trace, LAMBDA e : e.i > 0)

\* C6: the output file is written only when, in this order, every input file was
\* found, every input parsed, validate returned no error, the template has a
\* variable and the pass returned a result for every variable, and --dry-run is off;
\* and once validate returned an error no variable is resolved or prompted, no shell
\* command is run and nothing is written.
C6_WriteLast ==
    /\ IsSome(written) =>
           /\ \A i \in DOMAIN world.inputs : IsSome(world.inputs[i])
           /\ IsSome(merged) /\ AllParsed(ParsedInputs(world.inputs))
           /\ cliErrors = Some(<<>>)
           /\ variables # <<>> /\ Len(results) = Len(variables)
           /\ ~options.dryRun
           /\ trace = <<Event(0, "exists"), Event(0, "parsed"), Event(0, "validated")>>
                      \o VariableEvents \o <<Event(0, "write")>>
    /\ (IsSome(cliErrors) /\ cliErrors[1] # <<>>) =>
           /\ VariableEvents = <<>> /\ results = <<>>
           /\ written = None /\ pc = "exit1"

\* a file written from two merged inputs after a shown prompt
C6_Witness ==
    /\ IsSome(written) /\ Len(world.inputs) = 2 /\ pc = "done"
    /\ Len(results) = 1 /\ Includes(EventsOf(1), "prompt")
    /\ trace[Len(trace)] = Event(0, "write")

\* C7: once the user has cancelled the prompt of a variable, the pass has returned
\* no result, nothing after the cancelled prompt has happened - no later variable
\* resolved, prompted or shell command run - and no output file is written.
C7_Cancel ==
    \A k \in DOMAIN trace :
        trace[k].ev = "cancel" =>
            /\ k = Len(trace) - 1 /\ trace[Len(trace)] = Event(0, "null")
            /\ pc = "exit1"
            /\ Len(results) = trace[k].i - 1
            /\ \A j \in DOMAIN trace : trace[j].i <= trace[k].i
            /\ written = None

\* the prompt of the first of two variables was cancelled
C7_Witness ==
    /\ \E k \in DOMAIN trace : trace[k] = Event(1, "cancel")
    /\ Len(variables) = 2
    /\ pc = "exit1" /\ results = <<>> /\ written = None

KeptSoFar == {i \in 1 .. Len(results) : InExistingFile(i)}

\* C8: without --overwrite every resolved variable that the existing output file
\* names has exactly its existing value, is counted as kept and was neither prompted
\* nor had its default resolved (no shell command, no secret); every other variable
\* is not kept; with --overwrite nothing is kept.
C8_Kept ==
    /\ \A i \in 1 .. Len(results) :
           IF InExistingFile(i)
           THEN /\ results[i].value = EntryGet(read(world.output), variables[i].name)
                /\ EventsOf(i) = <<"kept">>
           ELSE ~Includes(EventsOf(i), "kept")
    /\ stats.kept = Cardinality(KeptSoFar)
    /\ options.overwrite => stats.kept = 0

\* a run that kept the quoted value of A from the existing file and prompted for
\* another variable
C8_Witness ==
    /\ ~options.overwrite
    /\ \E i \in 1 .. Len(results) :
           /\ InExistingFile(i) /\ results[i].value = <<"o", " ", "k">>
           /\ EventsOf(i) = <<"kept">>
    /\ \E i \in 1 .. Len(results) : ~InExistingFile(i) /\ Includes(EventsOf(i), "prompt")
    /\ stats.kept = 1

(***************************************************************************)
(* parseValue followed by resolve: one value text, parsed, then its default *)
(* resolved with what the shell command and randomBytes returned.           *)
(***************************************************************************)
MaxChoices == 3
MaxSecretLength == 2

\* the pieces between the bars of an options value, as written
ChoicePool ==
    { <<"a">>, <<"b">>, <<" ", "a", " ">>, <<"*", "a">>, <<"*", "b">>, <<" ", "*", "b">>,
      <<"*", " ", "a">>, <<>>, <<"*">> }

OptionsInput(pieces) ==
    [kind |-> "options", pieces |-> pieces, text |-> <<"<">> \o Join(pieces, "|") \o <<">">>]

OptionsInputs == {OptionsInput(ps) : ps \in UNION {[1 .. k -> ChoicePool] : k \in 2 .. MaxChoices}}

\* the charset specs: none, known presets, and specs naming a preset that does not exist
CharsetSpecs ==
    { None,
      Some(<<"alnum">>), Some(<<"hex">>), Some(<<"hex", "HEX">>), Some(<<"num", "hex", "num">>),
      Some(<<"special", "lower">>), Some(<<"bogus">>), Some(<<"alnum", "bogus">>) }

Spelled(preset) == IF preset = "bogus" THEN <<"b", "o", "g", "u", "s">> ELSE PresetNames[preset]

SpecText(presets) == Join([i \in DOMAIN presets |-> Spelled(presets[i])], "+")

SecretInput(length, spec) ==
    [kind |-> "secret", length |-> length, presets |-> spec,
     text |-> SecretPrefix \o <<DigitSeq[length + 1]>>
              \o (IF IsSome(spec) THEN <<":">> \o SpecText(spec[1]) ELSE <<>>) \o <<">">>]

SecretInputs == {SecretInput(n, spec) : n \in 0 .. MaxSecretLength, spec \in CharsetSpecs}

OtherInputs ==
    { [kind |-> "shell", text |-> <<Backquote, "c", Backquote>>],
      [kind |-> "static", text |-> <<"v">>],
      [kind |-> "none", text |-> <<" ">>],
      [kind |-> "directives", text |-> <<"<", "u", "r", "l", ">">>] }

InitResolve ==
    /\ fin \in OptionsInputs \cup SecretInputs \cup OtherInputs
    /\ fmid = None
    /\ fout = None
    /\ fpc = "start"
    /\ IdleRt /\ IdleM /\ IdleI /\ IdleV /\ IdleRun

\* parseValue(value)
ParseValue ==
    /\ fpc = "start"
    /\ fmid' = parseValue(fin.text)
    /\ fpc' = IF parseValue(fin.text).ok THEN "parsed" ELSE "threw"
    /\ UNCHANGED <<fin, fout>>
    /\ UNCHANGED <<rtVars, mVars, iVars, vVars, runVars>>

\* resolve(defaultValue)
ResolveDefault ==
    /\ fpc = "parsed"
    /\ \E outcome \in ShellOutcomes(fmid.default), bytes \in RandomBytes(fmid.default) :
           fout' = [result |-> resolve(fmid.default, outcome, bytes),
                    outcome |-> outcome, bytes |-> bytes]
    /\ fpc' = "resolved"
    /\ UNCHANGED <<fin, fmid>>
    /\ UNCHANGED <<rtVars, mVars, iVars, vVars, runVars>>

NextResolve == ParseValue \/ ResolveDefault

SpecResolve == InitResolve /\ [][NextResolve]_vars

\* a piece is starred when its trimmed text begins with '*'
Starred(piece) == Trim(piece) # <<>> /\ Trim(piece)[1] = "*"

\* trimmed, and without the leading '*'
Unstarred(piece) == IF Starred(piece) THEN Tail(Trim(piece)) ELSE Trim(piece)

StarredAt(pieces) == {i \in DOMAIN pieces : Starred(pieces[i])}

LastOf(S) == CHOOSE i \in S : \A j \in S : j <= i

ExpectedChoice(pieces) ==
    IF StarredAt(pieces) = {} THEN Unstarred(pieces[1])
    ELSE Unstarred(pieces[LastOf(StarredAt(pieces))])

IsOptions == fpc \in {"parsed", "resolved"} /\ fmid.default.type = "options"

RECURSIVE FirstOccurrences(_, _)
FirstOccurrences(s, i) ==
    IF i > Len(s) THEN <<>>
    ELSE (IF \E j \in 1 .. (i - 1) : s[j] = s[i] THEN <<>> ELSE <<s[i]>>)
         \o FirstOccurrences(s, i + 1)

\* the presets of the spec concatenated in spec order, first occurrences only; alnum
\* when there is no spec
ExpectedCharset(spec) ==
    IF ~IsSome(spec) THEN CHARSET_PRESETS.alnum
    ELSE FirstOccurrences(Flatten([i \in DOMAIN spec[1] |-> CHARSET_PRESETS[spec[1][i]]]), 1)

KnownPresets(spec) == IsSome(spec) => \A i \in DOMAIN spec[1] : spec[1][i] # "bogus"

\* C12: for every length N and every charset spec of known presets (or none),
\* generateSecret returns exactly N characters, one per random byte, the i-th being the
\* character at (byte i mod charset length) of the expanded charset: the presets
\* concatenated in spec order with duplicates removed, first occurrence kept.
C12_Secret ==
    (fpc = "resolved" /\ fin.kind = "secret" /\ KnownPresets(fin.presets)) =>
        /\ fmid.default.type = "secret"
        /\ fmid.default.length = fin.length
        /\ fout.result.ok
        /\ Len(fout.bytes) = fin.length
        /\ Len(fout.result.value) = fin.length
        /\ \A i \in 1 .. fin.length :
               /\ fout.result.value[i] \in Range(ExpectedCharset(fin.presets))
               /\ fout.result.value[i] =
                      ExpectedCharset(fin.presets)[
                          (fout.bytes[i] % Len(ExpectedCharset(fin.presets))) + 1]

\* hex+HEX expands to the 22 characters 0-9a-fA-F: byte 255 gives 'd', byte 0 gives '0'
C12_Witness ==
    /\ fpc = "resolved" /\ fin.kind = "secret"
    /\ fin.length = 2
    /\ fin.presets = Some(<<"hex", "HEX">>)
    /\ Len(ExpectedCharset(fin.presets)) = 22
    /\ fout.bytes = <<255, 0>>
    /\ fout.result.ok
    /\ fout.result.value = <<"d", "0">>

(***************************************************************************)
(* escapeValue on its own: one value, then its serialisation.               *)
(***************************************************************************)
MaxValueLength == 3

ValueChars == {"a", " ", "#", "\"", "'", "$", "\n", "\\", "\t"}

EscapedValues == UNION {[1 .. k -> ValueChars] : k \in 0 .. MaxValueLength}

InitEscape ==
    /\ fin \in EscapedValues
    /\ fmid = None
    /\ fout = None
    /\ fpc = "start"
    /\ IdleRt /\ IdleM /\ IdleI /\ IdleV /\ IdleRun

\* escapeValue(value)
EscapeValue ==
    /\ fpc = "start"
    /\ fout' = escapeValue(fin)
    /\ fpc' = "done"
    /\ UNCHANGED <<fin, fmid>>
    /\ UNCHANGED <<rtVars, mVars, iVars, vVars, runVars>>

NextEscape == EscapeValue

SpecEscape == InitEscape /\ [][NextEscape]_vars

\* space, '#', double quote, single quote, '$', newline
QuotingChars == {" ", "#", "\"", "'", "$", "\n"}

NeedsQuotes(value) == Range(value) \cap QuotingChars # {}

\* every backslash, double quote and '$' preceded by a backslash
Backslashed(value) ==
    Flatten([i \in DOMAIN value |->
                IF value[i] \in {"\\", "\"", "$"} THEN <<"\\", value[i]>> ELSE <<value[i]>>])

\* C13: escapeValue returns the value unchanged exactly when it holds none of space, '#',
\* double quote, single quote, '$' and newline; otherwise the value between double
\* quotes with every backslash, double quote and '$' preceded by a backslash; the empty
\* value gives the empty string.
C13_Escape ==
    fpc = "done" =>
        /\ (fout = fin) <=> ~NeedsQuotes(fin)
        /\ NeedsQuotes(fin) => fout = <<"\"">> \o Backslashed(fin) \o <<"\"">>
        /\ fin = <<>> => fout = <<>>

\* a backslash, a quote and a space: quoted, the first two escaped
C13_Witness ==
    /\ fpc = "done"
    /\ fin = <<"\\", "\"", " ">>
    /\ fout = <<"\"", "\\", "\\", "\\", "\"", " ", "\"">>

(***************************************************************************)
(* transformer.ts: applyTransforms.  A pattern of the model is literal text *)
(* (no metacharacter) or one character class followed by '+'; a character   *)
(* class is read as new RegExp reads it, '-' between two atoms being a      *)
(* range over code points.  The characters are the printable ASCII ones.    *)
(***************************************************************************)
\* the characters with the code points 32 to 126, in order
Ascii ==
    <<" ", "!", "\"", "#", "$", "%", "&", "'", "(", ")", "*", "+", ",", "-", ".", "/">>
    \o DigitSeq \o <<":", ";", "<", "=", ">", "?", "@">> \o UpperSeq
    \o <<"[", "\\", "]", "^", "_", Backquote>> \o LowerSeq \o <<"{", "|", "}", "~">>

\* c.charCodeAt(0)
CodePoint(c) == 31 + (CHOOSE i \in DOMAIN Ascii : Ascii[i] = c)

\* the characters from lo to hi
CharRange(lo, hi) ==
    {c \in Range(Ascii) : CodePoint(lo) <= CodePoint(c) /\ CodePoint(c) <= CodePoint(hi)}

\* the atoms of the text of a character class: a backslash and the character it
\* escapes are one atom, which is no range dash
RECURSIVE ClassAtoms(_)
ClassAtoms(src) ==
    IF src = <<>> THEN <<>>
    ELSE IF Head(src) = "\\" /\ Len(src) >= 2
    THEN <<[char |-> src[2], raw |-> FALSE]>> \o ClassAtoms(Slice(src, 2))
    ELSE <<[char |-> Head(src), raw |-> TRUE]>> \o ClassAtoms(Tail(src))

IsDash(atom) == atom.raw /\ atom.char = "-"

\* a range out of order is the SyntaxError of new RegExp
RangeThen(lo, hi, rest) ==
    IF CodePoint(lo) > CodePoint(hi) THEN [ok |-> FALSE, chars |-> {}]
    ELSE [ok |-> rest.ok, chars |-> rest.chars \cup CharRange(lo, hi)]

AtomThen(c, rest) == [ok |-> rest.ok, chars |-> rest.chars \cup {c}]

\* the characters of the class from its i-th atom on: atom '-' atom is a range
RECURSIVE ClassRanges(_, _)
ClassRanges(atoms, i) ==
    IF i > Len(atoms) THEN [ok |-> TRUE, chars |-> {}]
    ELSE IF i + 2 <= Len(atoms) /\ IsDash(atoms[i + 1])
    THEN RangeThen(atoms[i].char, atoms[i + 2].char, ClassRanges(atoms, i + 3))
    ELSE AtomThen(atoms[i].char, ClassRanges(atoms, i + 1))

\* the set of characters of [src]
CharacterClass(src) == ClassRanges(ClassAtoms(src), 1)
UpperOf(c) ==
    IF c \in LowerChars THEN UpperSeq[CHOOSE i \in DOMAIN LowerSeq : LowerSeq[i] = c] ELSE c

toUpperCase(s) == [i \in DOMAIN s |-> UpperOf(s[i])]

\* the literal pattern matches s at the 0-based position m
MatchesAt(s, pat, m, ignoreCase) ==
    /\ m + Len(pat) <= Len(s)
    /\ IF ignoreCase
       THEN toLowerCase(SubSeq(s, m + 1, m + Len(pat))) = toLowerCase(pat)
       ELSE SubSeq(s, m + 1, m + Len(pat)) = pat

\* the first match at or after pos, or -1
NextMatch(s, pat, pos, ignoreCase) ==
    MinOrMinusOne({m \in pos .. Len(s) : MatchesAt(s, pat, m, ignoreCase)})

RECURSIVE ReplaceFrom(_, _, _, _, _)

\* the text from pos on, with the match at m replaced and, under g, the later ones too
ReplaceMatch(s, pat, repl, pos, flags, m) ==
    IF m = -1 THEN Slice(s, pos)
    ELSE SubSeq(s, pos + 1, m)
         \o GetSubstitution(repl, 1, SubSeq(s, m + 1, m + Len(pat)), SubSeq(s, 1, m),
                            Slice(s, m + Len(pat)))
         \o (IF "g" \notin Range(flags) THEN Slice(s, m + Len(pat))
             ELSE IF pat # <<>> THEN ReplaceFrom(s, pat, repl, m + Len(pat), flags)
             ELSE IF m < Len(s) THEN <<s[m + 1]>> \o ReplaceFrom(s, pat, repl, m + 1, flags)
             ELSE <<>>)

ReplaceFrom(s, pat, repl, pos, flags) ==
    ReplaceMatch(s, pat, repl, pos, flags, NextMatch(s, pat, pos, "i" \in Range(flags)))

\* the pattern is [class]+ or [^class]+
IsClassRun(pattern) ==
    /\ Len(pattern) >= 4
    /\ pattern[1] = "[" /\ pattern[Len(pattern) - 1] = "]" /\ pattern[Len(pattern)] = "+"

Negated(pattern) == pattern[2] = "^"

ClassBody(pattern) ==
    SubSeq(pattern, IF Negated(pattern) THEN 3 ELSE 2, Len(pattern) - 2)

\* the character c is one that the class, negated or not, matches
InClass(c, class, negated, ignoreCase) ==
    (IF ignoreCase THEN {LowerOf(c), UpperOf(c)} \cap class # {} ELSE c \in class) # negated

\* the 0-based end of the run of matching characters that begins at m
RECURSIVE RunEnd(_, _, _, _, _)
RunEnd(s, class, negated, ignoreCase, m) ==
    IF m < Len(s) /\ InClass(s[m + 1], class, negated, ignoreCase)
    THEN RunEnd(s, class, negated, ignoreCase, m + 1) ELSE m

RECURSIVE ReplaceRunsFrom(_, _, _, _, _, _)

\* the text from pos on, with the run from m to e replaced and, under g, the later ones too
ReplaceRun(s, class, negated, repl, pos, flags, m, e) ==
    IF m = -1 THEN Slice(s, pos)
    ELSE SubSeq(s, pos + 1, m)
         \o GetSubstitution(repl, 1, SubSeq(s, m + 1, e), SubSeq(s, 1, m), Slice(s, e))
         \o (IF "g" \notin Range(flags) THEN Slice(s, e)
             ELSE ReplaceRunsFrom(s, class, negated, repl, e, flags))

RunStart(s, class, negated, pos, ignoreCase) ==
    MinOrMinusOne({m \in pos .. (Len(s) - 1) : InClass(s[m + 1], class, negated, ignoreCase)})

ReplaceRunAt(s, class, negated, repl, pos, flags, m) ==
    ReplaceRun(s, class, negated, repl, pos, flags, m,
               IF m = -1 THEN -1 ELSE RunEnd(s, class, negated, "i" \in Range(flags), m))

ReplaceRunsFrom(s, class, negated, repl, pos, flags) ==
    ReplaceRunAt(s, class, negated, repl, pos, flags,
                 RunStart(s, class, negated, pos, "i" \in Range(flags)))

\* result.replace(new RegExp(pattern, flags), replacement)
RegExpReplace(s, pattern, flags, replacement) ==
    IF IsClassRun(pattern)
    THEN ReplaceRunsFrom(s, CharacterClass(ClassBody(pattern)).chars, Negated(pattern),
                         replacement, 0, flags)
    ELSE ReplaceFrom(s, pattern, replacement, 0, flags)

RegExpSpecials == {".", "*", "+", "?", "^", "$", "{", "}", "(", ")", "|", "[", "]", "\\"}

\* chars.replace(/[.*+?^${}()|[\]\\]/g, '\\$&')
EscapeRegExp(chars) ==
    Flatten([i \in DOMAIN chars |->
                 IF chars[i] \in RegExpSpecials THEN <<"\\", chars[i]>> ELSE <<chars[i]>>])

\* the class of the trimRegex of chars; ok is FALSE when new RegExp throws
TrimClass(chars) == CharacterClass(EscapeRegExp(chars))

\* result.replace(/^[class]+|[class]+$/g, '')
RECURSIVE TrimLeading(_, _)
TrimLeading(s, class) ==
    IF s # <<>> /\ Head(s) \in class THEN TrimLeading(Tail(s), class) ELSE s

RECURSIVE TrimTrailing(_, _)
TrimTrailing(s, class) ==
    IF s # <<>> /\ s[Len(s)] \in class
    THEN TrimTrailing(SubSeq(s, 1, Len(s) - 1), class) ELSE s

\* the trim transform, for chars whose trimRegex compiles
TrimBoth(s, class) == TrimTrailing(TrimLeading(s, class), class)

TrimChars(s, chars) == TrimBoth(s, TrimClass(chars).chars)

\* new RegExp throws on the class of a trim transform
TransformThrows(transform) == transform.type = "trim" /\ ~TrimClass(transform.chars).ok

\* result.replace(/[^a-z0-9]+/g, '-')
RECURSIVE Dashed(_, _)
Dashed(s, inRun) ==
    IF s = <<>> THEN <<>>
    ELSE IF Head(s) \in LowerChars \cup DigitChars THEN <<Head(s)>> \o Dashed(Tail(s), FALSE)
    ELSE IF inRun THEN Dashed(Tail(s), TRUE)
    ELSE <<"-">> \o Dashed(Tail(s), TRUE)

\* a slugify without its last replace
SlugifyUntrimmed(s) == Dashed(toLowerCase(s), FALSE)

\* toLowerCase, replace(/[^a-z0-9]+/g, '-'), replace(/^-+|-+$/g, '')
Slugify(s) == TrimBoth(Dashed(toLowerCase(s), FALSE), {"-"})

\* the body of the switch for one transform
ApplyTransform(result, transform) ==
    CASE transform.type = "lowercase" -> toLowerCase(result)
      [] transform.type = "uppercase" -> toUpperCase(result)
      [] transform.type = "replace" ->
             RegExpReplace(result, transform.pattern, transform.flags, transform.replacement)
      [] transform.type = "trim" -> TrimChars(result, transform.chars)
      [] transform.type = "slugify" -> Slugify(result)

\* the transforms from the last to the first
RECURSIVE applyTransformsRightToLeft(_, _)
applyTransformsRightToLeft(value, transforms) ==
    IF transforms = <<>> THEN value
    ELSE applyTransformsRightToLeft(ApplyTransform(value, transforms[Len(transforms)]),
                                    SubSeq(transforms, 1, Len(transforms) - 1))

\* for (const transform of transforms) ...; return result
RECURSIVE applyTransforms(_, _)
applyTransforms(value, transforms) ==
    IF transforms = <<>> THEN value
    ELSE applyTransforms(ApplyTransform(value, Head(transforms)), Tail(transforms))

(***************************************************************************)
(* parseDirectiveString followed by applyTransforms: the terms of one       *)
(* directive string, parsed, then the transforms applied to one value.      *)
(***************************************************************************)
MaxTerms == 3

\* a term as written, and the transform it stands for when it is one
TermPool ==
    { [text |-> SIMPLE_TRANSFORMS.lowercase, transform |-> Some([type |-> "lowercase"])],
      [text |-> SIMPLE_TRANSFORMS.uppercase, transform |-> Some([type |-> "uppercase"])],
      [text |-> <<" ">> \o SIMPLE_TRANSFORMS.slugify, transform |-> Some([type |-> "slugify"])],
      [text |-> TrimPrefix \o <<"-">>, transform |-> Some([type |-> "trim", chars |-> <<"-">>])],
      [text |-> ReplacePrefix \o <<"b", "/", "$", "&", "-", "/", "g", "i">>,
       transform |-> Some([type |-> "replace", pattern |-> <<"b">>,
                           replacement |-> <<"$", "&", "-">>, flags |-> <<"g", "i">>])],
      [text |-> VALID_DIRECTIVES.required, transform |-> None],
      [text |-> <<"i", "f", ":", "A">>, transform |-> None],
      [text |-> RegexPrefix \o <<"x", "/", "i", ":", "n", "o", " ", "a">>, transform |-> None],
      [text |-> RegexPrefix \o <<"x", "/">>, transform |-> None] }

TransformedValues ==
    { <<>>, <<"a", "-", "B">>, <<" ", "A", " ", "b", " ">>, <<"-", "-", "b", "-", "-">>,
      <<"a", "B", "a">>, <<"b", "1", " ", "-">> }

InitTransform ==
    /\ fin \in [value : TransformedValues,
                terms : UNION {[1 .. k -> TermPool] : k \in 0 .. MaxTerms}]
    /\ fmid = None
    /\ fout = None
    /\ fpc = "start"
    /\ IdleRt /\ IdleM /\ IdleI /\ IdleV /\ IdleRun

DirectiveText(terms) == Join([i \in DOMAIN terms |-> terms[i].text], ",")

\* parseDirectiveString(directiveStr)
ParseDirectives ==
    /\ fpc = "start"
    /\ fmid' = parseDirectiveString(DirectiveText(fin.terms))
    /\ fpc' = IF parseDirectiveString(DirectiveText(fin.terms)).ok THEN "parsed" ELSE "threw"
    /\ UNCHANGED <<fin, fout>>
    /\ UNCHANGED <<rtVars, mVars, iVars, vVars, runVars>>

\* applyTransforms(value, transforms); a trim class that does not compile throws
ApplyTransforms ==
    /\ fpc = "parsed"
    /\ IF \E i \in DOMAIN fmid.transforms : TransformThrows(fmid.transforms[i])
       THEN fout' = None /\ fpc' = "apply threw"
       ELSE fout' = applyTransforms(fin.value, fmid.transforms) /\ fpc' = "applied"
    /\ UNCHANGED <<fin, fmid>>
    /\ UNCHANGED <<rtVars, mVars, iVars, vVars, runVars>>

NextTransform == ParseDirectives \/ ApplyTransforms

SpecTransform == InitTransform /\ [][NextTransform]_vars

\* the transforms the terms stand for, in the order of the terms
RECURSIVE ExpectedTransforms(_)
ExpectedTransforms(terms) ==
    IF terms = <<>> THEN <<>>
    ELSE Head(terms).transform \o ExpectedTransforms(Tail(terms))

\* v through transform i, then i + 1, ... to the last
RECURSIVE Threaded(_, _, _)
Threaded(v, ts, i) ==
    IF i > Len(ts) THEN v ELSE Threaded(ApplyTransform(v, ts[i]), ts, i + 1)

\* C14: applyTransforms threads the value through the transforms from left to right:
\* applyTransforms(v, ts ++ us) = applyTransforms(applyTransforms(v, ts), us) for every
\* split of the list, applyTransforms(v, []) = v, and the list parsed from a directive
\* string is its transform terms in source order, whatever other terms lie between them.
C14_Transforms ==
    /\ fpc \in {"parsed", "applied"} => fmid.transforms = ExpectedTransforms(fin.terms)
    /\ fpc = "applied" =>
           /\ fout = Threaded(fin.value, fmid.transforms, 1)
           /\ applyTransforms(fin.value, <<>>) = fin.value
           /\ \A k \in 0 .. Len(fmid.transforms) :
                  fout = applyTransforms(
                             applyTransforms(fin.value, SubSeq(fmid.transforms, 1, k)),
                             SubSeq(fmid.transforms, k + 1, Len(fmid.transforms)))

\* <uppercase,if:A,lowercase> on a-B gives a-b: the order of the two transforms matters
C14_Witness ==
    /\ fpc = "applied"
    /\ fin.value = <<"a", "-", "B">>
    /\ Len(fin.terms) = 3
    /\ fin.terms[1].text = SIMPLE_TRANSFORMS.uppercase
    /\ fin.terms[2].transform = None
    /\ fin.terms[3].text = SIMPLE_TRANSFORMS.lowercase
    /\ fmid.transforms = <<[type |-> "uppercase"], [type |-> "lowercase"]>>
    /\ fout = <<"a", "-", "b">>

\* the line B=<secret:1:bogus>: a secret whose charset spec names no preset
UnknownCharsetLine == <<"B", "=">> \o SecretInput(1, Some(<<"bogus">>)).text

NamesUnknownCharset(file) ==
    IsSome(file) /\ \E i \in DOMAIN Split(file[1], "\n") : Split(file[1], "\n")[i] = UnknownCharsetLine

\* C15: a secret directive that names an unknown charset preset is a parse error: the run
\* ends at the parse, before any variable is resolved or prompted and before the shell
\* command of any earlier variable is executed.
C15_UnknownCharset ==
    (\E i \in DOMAIN world.inputs : NamesUnknownCharset(world.inputs[i])) =>
        /\ pc \in {"start", "parse", "exit1"}
        /\ merged = None
        /\ VariableEvents = <<>>

\* the shell command of an earlier variable has run when the unknown preset is met, at
\* the resolution of the secret
ShellBeforeUnknownCharset ==
    /\ pc = "exit1"
    /\ Len(variables) = 2
    /\ variables[1].default.type = "shell"
    /\ variables[2].default.type = "secret"
    /\ ~expandCharset(variables[2].default.charset).ok
    /\ Len(results) = 1
    /\ \E k \in DOMAIN trace : trace[k].i = 1 /\ trace[k].ev = "shell"
    /\ trace[Len(trace) - 1] = Event(2, "resolve")

\* the shell event at position k of the trace: the result is returned, not thrown; the
\* trimmed standard output and no error on success, "" and an error on a failure
ShellResult(e) ==
    /\ e.resolved.ok
    /\ e.outcome.ok => e.resolved.value = Trim(e.outcome.stdout) /\ e.resolved.error = None
    /\ ~e.outcome.ok => e.resolved.value = <<>> /\ IsSome(e.resolved.error)

\* the variable of the shell event at k is resolved (with the shell result when the
\* defaults are taken), unless the user cancelled its prompt
ShellVariableResolved(k, e) ==
    \/ /\ Len(results) >= e.i
       /\ options.defaults => results[e.i].value = e.resolved.value
    \/ /\ k + 3 = Len(trace)
       /\ trace[k + 1] = Event(e.i, "prompt")
       /\ trace[k + 2] = Event(e.i, "cancel")

C17_Single ==
    (mpc = "done" /\ Len(inputs) = 1) =>
        /\ nodes = inputs[1].template.nodes
        /\ mergeTemplates(<<[template |-> [nodes |-> nodes], filename |-> Filename(1)]>>).nodes
               = nodes

\* a single template with a section header of its own and a variable
C17_Witness ==
    /\ mpc = "done" /\ Len(inputs) = 1
    /\ Len(nodes) = 2
    /\ nodes[1].type = "section"
    /\ nodes[2].type = "variable"
    /\ nodes = inputs[1].template.nodes

\* the last variable node of input that defines name
LastOccurrence(input, name) ==
    VarNodes(input)[CHOOSE k \in DOMAIN VarNodes(input) :
                        /\ VarNodes(input)[k].variable.name = name
                        /\ \A j \in (k + 1) .. Len(VarNodes(input)) :
                               VarNodes(input)[j].variable.name # name]

Occurrences(input, name) ==
    {k \in DOMAIN VarNodes(input) : VarNodes(input)[k].variable.name = name}

\* ns has exactly one variable node of that name, and it is node
HoldsOnly(ns, name, node) ==
    /\ \E k \in DOMAIN ns : ns[k] = node
    /\ \A j, k \in DOMAIN ns :
           (/\ ns[j].type = "variable" /\ ns[j].variable.name = name
            /\ ns[k].type = "variable" /\ ns[k].variable.name = name) => j = k

\* C18: when a name occurs more than once within one override file, the merged node list
\* is still dense (no missing entry) and the name's position holds the node of its last
\* occurrence, whether the name was in the result already or was new and staged.
C18_DuplicateInOverride ==
    mpc = "done" =>
        \A i \in 2 .. Len(inputs) :
            \A name \in NamesIn(inputs[i]) :
                (/\ Cardinality(Occurrences(inputs[i], name)) > 1
                 /\ \A j \in (i + 1) .. Len(inputs) : name \notin NamesIn(inputs[j])) =>
                    /\ ~HasHole(nodes)
                    /\ HoldsOnly(nodes, name, LastOccurrence(inputs[i], name))

\* a name of the result occurring twice in one override: replaced in place by the last
\* occurrence, the list dense
DuplicateOfExistingName ==
    /\ mpc = "done" /\ Len(inputs) = 2
    /\ Cardinality(Occurrences(inputs[2], <<"A">>)) = 2
    /\ <<"A">> \in NamesIn(inputs[1])
    /\ NamesIn(inputs[2]) = {<<"A">>}
    /\ ~HasHole(nodes)
    /\ HoldsOnly(nodes, <<"A">>, LastOccurrence(inputs[2], <<"A">>))

\* C19: after the parse of a single template text and a validate that returned no
\* error, no two variables of the template have the same name.
C19_UniqueNames ==
    (Len(world.inputs) = 1 /\ IsSome(merged) /\ IsSome(cliErrors) /\ cliErrors[1] = <<>>) =>
        \A i, j \in DOMAIN getVariables(merged[1]) :
            getVariables(merged[1])[i].name = getVariables(merged[1])[j].name => i = j

(***************************************************************************)
(* Interpolation during the pass over the variables of a template that      *)
(* validate accepted.                                                       *)
(***************************************************************************)
IsInterpolation(e) == e.ev = "interpolate"

ReferencesAreKeys(e) == \A r \in DOMAIN e.refs : e.refs[r] \in e.keys

\* C20: when validate returned no errors, the pass over the variables in document
\* order never meets an undefined interpolation reference: each time a static
\* default is interpolated, every name it references is a key of resolvedValues,
\* whichever way the earlier variables were resolved
C20_ReferencesResolved ==
    (cliErrors = Some(<<>>)) =>
        \A k \in DOMAIN trace :
            /\ trace[k].ev # "undefined"
            /\ IsInterpolation(trace[k]) => ReferencesAreKeys(trace[k])

\* Y=${X} is interpolated after a false condition skipped X, and the run ends well
C20_Witness ==
    /\ pc = "done"
    /\ Len(results) = 3
    /\ EventsOf(2) = <<"skipped">>
    /\ \E k \in DOMAIN trace :
           /\ IsInterpolation(trace[k])
           /\ trace[k].i = 3
           /\ trace[k].refs = << <<"X">> >>
           /\ <<"X">> \in trace[k].keys
    /\ results[3].value = <<>>

\* a default that references a kept value, a generated secret, an accepted default
\* or a typed answer is interpolated with it
InterpolatedAfter(counter) ==
    /\ pc = "done"
    /\ Len(results) = 2
    /\ stats[counter] = 1
    /\ \E k \in DOMAIN trace : IsInterpolation(trace[k]) /\ trace[k].i = 2 /\ Len(trace[k].refs) > 0
    /\ results[2].name = <<"Y">>

(***************************************************************************)
(* The pass over the variables, step by step.                               *)
(***************************************************************************)
\* a step of the loop of promptForVariables that went on to the next variable
LoopStep == pc = "prompt" /\ idx <= Len(variables) /\ idx' = idx + 1

\* no key of resolvedValues is removed and no value of it is changed
EntriesRetained ==
    \A n \in DOMAIN resolvedValues :
        n \in DOMAIN resolvedValues' /\ resolvedValues'[n] = resolvedValues[n]

\* the step adds the entry of the variable at idx and no other
EntryAdded ==
    /\ DOMAIN resolvedValues' = DOMAIN resolvedValues \cup {variables[idx].name}
    /\ resolvedValues'[variables[idx].name] = results'[idx].value

\* C21: during one pass the variables are processed one at a time in document
\* order and resolvedValues only grows: each step adds the entry of the variable
\* just processed, and an entry, once set, is never rewritten or removed by a
\* later step.
C21_OnlyGrows ==
    [][/\ (pc = "prompt" /\ pc' = "prompt") => idx' \in {idx, idx + 1}
       /\ LoopStep => EntryAdded
       /\ EntriesRetained]_vars

\* the second variable named A is answered with another value than the first
RewrittenEntry ==
    /\ Len(results) = 2
    /\ results[1].name = results[2].name
    /\ results[1].value # results[2].value
    /\ resolvedValues[results[1].name] = results[2].value

(***************************************************************************)
(* parseValue on a single <...> expression: up to MaxTokens terms between   *)
(* commas, some of them no term of the directive grammar.                   *)
(***************************************************************************)
MaxTokens == 2

\* the terms of the directive grammar, two of them with a bar inside the slashes,
\* one with an error message that ends with '!'
KnownTokens ==
    { [text |-> <<"r","e","q","u","i","r","e","d">>, known |-> TRUE, bar |-> FALSE],
      [text |-> <<"l","o","w","e","r","c","a","s","e">>, known |-> TRUE, bar |-> FALSE],
      [text |-> <<"t","r","i","m",":","-">>, known |-> TRUE, bar |-> FALSE],
      [text |-> <<"i","f",":","A">>, known |-> TRUE, bar |-> FALSE],
      [text |-> <<"r","e","g","e","x",":","/","x","/","i",":","n","o">>, known |-> TRUE,
       bar |-> FALSE],
      [text |-> <<"r","e","g","e","x",":","/","x","/",":","n","o","!">>, known |-> TRUE,
       bar |-> FALSE],
      [text |-> <<"r","e","g","e","x",":","/","a","|","b","/">>, known |-> TRUE, bar |-> TRUE],
      [text |-> <<"r","e","p","l","a","c","e",":","/","a","|","b","/","x","/","g">>,
       known |-> TRUE, bar |-> TRUE] }

\* tokens that are no term of the grammar
UnknownTokens ==
    { [text |-> <<"f","o","o">>, known |-> FALSE, bar |-> FALSE],
      [text |-> <<"t","r","i","m">>, known |-> FALSE, bar |-> FALSE],
      [text |-> <<"i","f",":","a">>, known |-> FALSE, bar |-> FALSE],
      [text |-> <<"f","o","o","!">>, known |-> FALSE, bar |-> FALSE],
      [text |-> <<"f","=","o">>, known |-> FALSE, bar |-> FALSE] }

BracketInput(tokens) ==
    [kind |-> "bracket", tokens |-> tokens,
     text |-> <<"<">> \o Join([i \in DOMAIN tokens |-> tokens[i].text], ",") \o <<">">>]

BracketInputs ==
    {BracketInput(ts) : ts \in UNION {[1 .. k -> KnownTokens \cup UnknownTokens] :
                                          k \in 1 .. MaxTokens}}

InitBracket ==
    /\ fin \in BracketInputs
    /\ fmid = None
    /\ fout = None
    /\ fpc = "start"
    /\ IdleRt /\ IdleM /\ IdleI /\ IdleV /\ IdleRun

SpecBracket == InitBracket /\ [][NextResolve]_vars

Parsed == fpc # "idle" /\ fpc # "start"

AllKnown(tokens) == \A i \in DOMAIN tokens : tokens[i].known

HasBarTerm(tokens) == \E i \in DOMAIN tokens : tokens[i].bar

\* the first token that is no term of the grammar
FirstUnknown(tokens) ==
    tokens[CHOOSE i \in DOMAIN tokens :
               ~tokens[i].known /\ \A j \in 1 .. (i - 1) : tokens[j].known]

\* two if: terms are another parse error, thrown at the second
TwoConditions(tokens) ==
    \E i, j \in DOMAIN tokens : i < j /\ tokens[i].text = tokens[j].text
                                /\ tokens[i].text = <<"i","f",":","A">>

\* the shell, secret and options forms, as parseValue tests them
OtherForm(value) ==
    \/ IsSome(SHELL_COMMAND_REGEX(value))
    \/ IsSome(SECRET_DIRECTIVE_REGEX(value))
    \/ IsSome(OPTIONS_DIRECTIVE_REGEX(value))

\* C22: a bracketed value whose '|' lies inside a regex or replace term, all of its
\* terms being terms of the directive grammar, is parsed as directives (a regex
\* directive, a replace transform), not as an options default.
C22_BarInsideTerm ==
    (Parsed /\ fin.kind = "bracket" /\ AllKnown(fin.tokens) /\ HasBarTerm(fin.tokens)
     /\ ~TwoConditions(fin.tokens)) =>
        /\ fmid.ok
        /\ fmid.default.type = "none"
        /\ IsSome(fmid.regex) \/ fmid.transforms # <<>>

\* <regex:/a|b/> came out as the options default with the choices regex:/a and b/
BarTermAsOptions ==
    /\ Parsed /\ fin.kind = "bracket"
    /\ fin.text = <<"<","r","e","g","e","x",":","/","a","|","b","/",">">>
    /\ fmid.ok /\ fmid.default.type = "options"
    /\ fmid.default.choices = << <<"r","e","g","e","x",":","/","a">>, <<"b","/">> >>

\* C23: a single <...> expression that is no shell, secret or options form and
\* holds a token that is no term of the directive grammar makes parse fail with
\* "Unknown directive: <token>", whatever characters the token or a regex error
\* message beside it contains; it is never accepted as a static default.
C23_UnknownDirective ==
    (Parsed /\ fin.kind = "bracket" /\ ~OtherForm(fin.text) /\ ~AllKnown(fin.tokens)) =>
        /\ ~fmid.ok
        /\ ~TwoConditions(fin.tokens) =>
               fmid.error = [kind |-> "Unknown directive",
                             token |-> FirstUnknown(fin.tokens).text]

\* <foo!> came out as the static default "<foo!>"
UnknownTokenAsStatic ==
    /\ Parsed /\ fin.kind = "bracket"
    /\ fin.text = <<"<","f","o","o","!",">">>
    /\ fmid.ok /\ fmid.default = [type |-> "static", value |-> fin.text]

(***************************************************************************)
(* The whitespace nodes of a parsed template against the runs of blank      *)
(* lines of its text.                                                       *)
(***************************************************************************)
IsBlank(line) == Trim(line) = <<>>

\* the lengths of the maximal runs of blank lines of ls, in order; run is the
\* length of the run that ends just before ls
RECURSIVE BlankRuns(_, _)
BlankRuns(ls, run) ==
    IF ls = <<>> THEN (IF run > 0 THEN <<run>> ELSE <<>>)
    ELSE IF IsBlank(Head(ls)) THEN BlankRuns(Tail(ls), run + 1)
    ELSE (IF run > 0 THEN <<run>> ELSE <<>>) \o BlankRuns(Tail(ls), 0)

IsWhitespaceNode(node) == node.type = "whitespace"

\* the counts of the whitespace nodes of ns, in order
WhitespaceCounts(ns) ==
    [k \in DOMAIN SelectSeq(ns, IsWhitespaceNode) |-> SelectSeq(ns, IsWhitespaceNode)[k].count]

AdjacentWhitespace(ns) ==
    \E k \in 1 .. (Len(ns) - 1) : IsWhitespaceNode(ns[k]) /\ IsWhitespaceNode(ns[k + 1])

\* C24: parse emits exactly one Whitespace node for each maximal run of
\* consecutive blank lines, with count equal to the length of the run; no parsed
\* template contains two adjacent Whitespace nodes.
C24_OneNodePerRun ==
    (rtpc \in {"parsed", "done"}) =>
        /\ WhitespaceCounts(template.nodes) = BlankRuns(Split(text, "\n"), 0)
        /\ ~AdjacentWhitespace(template.nodes)

\* the two blank lines after A=1 came out as two nodes of count 1
TwoNodesForOneRun ==
    /\ rtpc = "parsed"
    /\ text = <<"A", "=", "1", "\n", "\n">>
    /\ WhitespaceCounts(template.nodes) = <<1, 1>>
    /\ AdjacentWhitespace(template.nodes)

(***************************************************************************)
(* applyTransforms on one value and one list of transforms: a trim, the     *)
(* slugify, or the list that slugify is said to stand for.                  *)
(***************************************************************************)
MaxApplyLength == 3

ApplyChars == {"a", "m", "z", "-", "^", "A", " ", "1"}

ApplyValues == {<<>>} \cup SeqsUpTo(ApplyChars, MaxApplyLength)

\* the chars of the trim transforms: single characters, characters around a '-',
\* a '-' at either end, characters that are special in a pattern
TrimSpecs ==
    { <<"-">>, <<"a", "-", "z">>, <<"z", "-", "a">>, <<"-", "a">>, <<"a", "-">>,
      <<"^">>, <<"]", "a">>, <<"\\">>, <<"^", "-", "a">> }

\* lowercase, replace(/[^a-z0-9]+/, '-', g), trim('-')
SlugifyComposite ==
    << [type |-> "lowercase"],
       [type |-> "replace", pattern |-> <<"[", "^", "a", "-", "z", "0", "-", "9", "]", "+">>,
        replacement |-> <<"-">>, flags |-> <<"g">>],
       [type |-> "trim", chars |-> <<"-">>] >>

ApplyLists ==
    {<<[type |-> "trim", chars |-> chars]>> : chars \in TrimSpecs}
    \cup {<<[type |-> "slugify"]>>, SlugifyComposite}

InitApply ==
    /\ fin \in [value : ApplyValues, transforms : ApplyLists]
    /\ fmid = [ok |-> TRUE, transforms |-> fin.transforms]
    /\ fout = None
    /\ fpc = "parsed"
    /\ IdleRt /\ IdleM /\ IdleI /\ IdleV /\ IdleRun

SpecApply == InitApply /\ [][ApplyTransforms]_vars

IsTrim(transforms) == Len(transforms) = 1 /\ transforms[1].type = "trim"

\* s without its longest prefix and its longest suffix of characters of chars
Stripped(s, chars) == TrimTrailing(TrimLeading(s, Range(chars)), Range(chars))

\* C25: for every value and every non-empty chars, trim(chars) removes exactly the
\* longest prefix and the longest suffix made only of characters that occur in
\* chars and changes nothing else, also when chars holds '-', '^', ']' or a
\* backslash: chars 'a-z' strips only 'a', '-' and 'z'.
C25_Trim ==
    (fpc \in {"applied", "apply threw"} /\ IsTrim(fin.transforms)) =>
        /\ fpc = "applied"
        /\ fout = Stripped(fin.value, fin.transforms[1].chars)

\* trim with chars a-z took the m off both ends of m-m
TrimOfRange ==
    /\ fpc = "applied"
    /\ fin = [value |-> <<"m", "-", "m">>,
              transforms |-> <<[type |-> "trim", chars |-> <<"a", "-", "z">>]>>]
    /\ fout = <<"-">>

\* trim with chars z-a threw
TrimThrew ==
    /\ fpc = "apply threw"
    /\ fin.transforms = <<[type |-> "trim", chars |-> <<"z", "-", "a">>]>>

\* groups of [a-z0-9] separated by single '-', no '-' at either end
IsSlug(s) ==
    /\ Range(s) \subseteq LowerChars \cup DigitChars \cup {"-"}
    /\ s # <<>> => s[1] # "-" /\ s[Len(s)] # "-"
    /\ \A k \in 1 .. (Len(s) - 1) : ~(s[k] = "-" /\ s[k + 1] = "-")

\* C26: for every value, slugify gives what applyTransforms gives for the list
\* lowercase, replace(/[^a-z0-9]+/, '-', g), trim('-'), and its result holds only
\* groups of [a-z0-9] separated by single '-', with no '-' at either end.
C26_Slugify ==
    (fpc = "applied" /\ fin.transforms = <<[type |-> "slugify"]>>) =>
        /\ fout = applyTransforms(fin.value, SlugifyComposite)
        /\ IsSlug(fout)

\* slugify of ' A^' is a: the run at each end became a '-' and was removed
C26_Witness ==
    /\ fpc = "applied"
    /\ fin.transforms = <<[type |-> "slugify"]>>
    /\ fin.value = <<" ", "A", "^">>
    /\ fout = <<"a">>
    /\ applyTransforms(fin.value, SubSeq(SlugifyComposite, 1, 2)) = <<"-", "a", "-">>

(***************************************************************************)
(* interpolate on a value with a reference that is not resolved.            *)
(***************************************************************************)
\* the 1-based positions of value where a reference to an unresolved name begins
AbsentAt(value, resolved) ==
    {i \in DOMAIN value : /\ IsSome(INTERPOLATION_PATTERN(value, i))
                          /\ INTERPOLATION_PATTERN(value, i)[1] \notin DOMAIN resolved}

\* the name of the leftmost of them
LeftmostAbsent(value, resolved) ==
    INTERPOLATION_PATTERN(value, CHOOSE i \in AbsentAt(value, resolved) :
                                     \A j \in AbsentAt(value, resolved) : i <= j)[1]

\* C27: interpolate, given a value with at least one ${NAME} whose NAME is absent
\* from resolvedValues, returns the error that names the leftmost absent reference
\* together with an empty value, never a partially substituted string, and leaves
\* resolvedValues unchanged.
C27_UndefinedVariable ==
    [][/\ resolvedMap' = resolvedMap
       /\ (ipc' = "returned" /\ AbsentAt(ivalue, resolvedMap) # {}) =>
              iresult' = [value |-> <<>>,
                          error |-> Some(LeftmostAbsent(ivalue, resolvedMap))]]_vars

\* ${A}x${B} with A resolved and B not: A was substituted, then the error names B
\* and the value is empty
C27_Witness ==
    /\ ipc = "returned"
    /\ ivalue = RefText(<<"A">>) \o <<"x">> \o RefText(<<"B">>)
    /\ resolvedMap = [n \in {<<"A">>} |-> <<"v">>]
    /\ imatches = <<<<"B">>>>
    /\ iresult = [value |-> <<>>, error |-> Some(<<"B">>)]

(***************************************************************************)
(* The merged node list and the name-to-position index after each override. *)
(***************************************************************************)
\* the 1-based positions of the variable nodes of ns named name
VariablePositions(ns, name) ==
    {i \in DOMAIN ns : ns[i].type = "variable" /\ ns[i].variable.name = name}

AllVariablePositions(ns) == {i \in DOMAIN ns : ns[i].type = "variable"}

\* the inputs merged so far and their names
Processed == SubSeq(inputs, 1, t)

ProcessedNames == NamesBefore(inputs, t + 1)

\* C28: for two or more inputs that each have pairwise distinct names, after every
\* override the merged node list holds each name of the inputs merged so far exactly
\* once, the node of a name is the one of the last input that defines it, every
\* entry of the name-to-position index points at a variable node with that name, and
\* there are as many variable nodes as distinct names.
C28_OncePerName ==
    (mpc \in {"overrides", "done"} /\ Len(inputs) >= 2 /\ AllDistinctNames) =>
        /\ \A name \in ProcessedNames :
               /\ Cardinality(VariablePositions(nodes, name)) = 1
               /\ \A i \in VariablePositions(nodes, name) :
                      nodes[i] = LastDefinition(Processed, name)
        /\ DOMAIN varIndex = ProcessedNames
        /\ \A name \in DOMAIN varIndex :
               varIndex[name] + 1 \in VariablePositions(nodes, name)
        /\ Cardinality(AllVariablePositions(nodes)) = Cardinality(ProcessedNames)

\* three files: the second adds C and D under its section, the third redefines D
\* where the index points
C28_Witness ==
    /\ mpc = "done" /\ Len(inputs) = 3 /\ AllDistinctNames
    /\ NamesIn(inputs[1]) = {<<"A">>, <<"B">>}
    /\ VarNodes(inputs[2]) # <<>> /\ NamesIn(inputs[2]) = {<<"C">>, <<"D">>}
    /\ NamesIn(inputs[3]) = {<<"D">>}
    /\ Len(nodes) = 9
    /\ nodes[varIndex[<<"D">>] + 1] = VarNodes(inputs[3])[1]
    /\ Cardinality(AllVariablePositions(nodes)) = 4

(***************************************************************************)
(* A value written as the line A=escapeValue(value) and read back with      *)
(* read, then written and read again as a kept value is.                    *)
(***************************************************************************)
MaxCycles == 2

\* the values without a newline
OneLineValues == {v \in EscapedValues : "\n" \notin Range(v)}

InitReread ==
    /\ fin \in OneLineValues
    /\ fmid = None
    /\ fout = None
    /\ fpc = "start"
    /\ IdleRt /\ IdleM /\ IdleI /\ IdleV /\ IdleRun

\* the content of a file with the one line A=escapeValue(value)
LineOf(value) == <<"A", "=">> \o escapeValue(value)

\* the file is generated: from the value at first, then from the value kept
WriteLine ==
    /\ fpc \in {"start", "read"}
    /\ fpc = "read" => fout.cycles < MaxCycles
    /\ fmid' = Some(LineOf(IF fpc = "start" THEN fin ELSE fout.value))
    /\ fpc' = "written"
    /\ UNCHANGED <<fin, fout>>
    /\ UNCHANGED <<rtVars, mVars, iVars, vVars, runVars>>

\* read(filePath).get('A')
ReadBack ==
    /\ fpc = "written"
    /\ fout' = [value |-> EntryGet(read(fmid), <<"A">>),
                cycles |-> IF fout = None THEN 1 ELSE fout.cycles + 1]
    /\ fpc' = "read"
    /\ UNCHANGED <<fin, fmid>>
    /\ UNCHANGED <<rtVars, mVars, iVars, vVars, runVars>>

NextReread == WriteLine \/ ReadBack

SpecReread == InitReread /\ [][NextReread]_vars

\* C29: for every value without a newline, the line NAME=escapeValue(value) read
\* back with read gives exactly the value, and so does every further cycle of
\* regenerating and rereading.
C29_RoundTrip == fpc = "read" => fout.value = fin

\* two backslashes are written bare and read back as one
BackslashesHalved ==
    /\ fpc = "read"
    /\ fin = <<"\\", "\\">>
    /\ fmid = Some(<<"A", "=", "\\", "\\">>)
    /\ fout.value = <<"\\">>

\* a tab is written bare and trimmed away by read
TabLost ==
    /\ fpc = "read"
    /\ fin = <<"\t">>
    /\ fout.value = <<>>

(***************************************************************************)
(* The counters and the result list of the pass.                            *)
(***************************************************************************)
StatsSum == stats.prompted + stats.defaults + stats.kept + stats.generated + stats.skipped

\* promptForVariables returned null
ReturnedNull == \E k \in DOMAIN trace : trace[k].i = 0 /\ trace[k].ev = "null"

\* the run printed or wrote a content
ContentProduced == \E k \in DOMAIN trace : trace[k].i = 0 /\ trace[k].ev \in {"print", "write"}

\* C30: after each step of the loop the counters prompted, defaults, kept, generated
\* and skipped sum to the number of variables processed so far and the result list
\* holds one entry per processed variable, in document order; a pass that returns
\* has one entry per variable of the template, and a pass that aborts (a cancelled
\* prompt, or with --defaults a required variable whose default is empty) returns
\* no result: the run exits without a content.
C30_Counted ==
    /\ StatsSum = Len(results)
    /\ Len(results) <= Len(variables)
    /\ \A i \in DOMAIN results :
           /\ results[i].name = variables[i].name
           /\ results[i].section = variables[i].section
    /\ pc = "prompt" => Len(results) = idx - 1
    /\ (pc = "done" \/ ContentProduced) => Len(results) = Len(variables) /\ ~ReturnedNull
    /\ ReturnedNull => pc = "exit1" /\ written = None /\ Len(results) < Len(variables)

\* the prompt of the second of two variables is cancelled after the first was
\* resolved: one entry, one count, no result, exit 1
C30_Witness ==
    /\ ReturnedNull
    /\ Len(variables) = 2 /\ Len(results) = 1 /\ StatsSum = 1
    /\ trace[Len(trace) - 1] = Event(2, "cancel")
    /\ pc = "exit1" /\ written = None

\* a pass over three variables returned: one kept or prompted, one skipped, one
\* with its default, three entries
ThreeCounted ==
    /\ pc = "done"
    /\ Len(variables) = 3 /\ Len(results) = 3
    /\ stats.skipped = 1 /\ StatsSum = 3

====
